---- MODULE Spec2Model ----
(***************************************************************************)
(* Batch orchestration engine of pvs_education_contacts:                   *)
(*   Orchestrator (src/src/orchestrator.ts), ProgressTracker               *)
(*   (src/src/utils/progressTracker.ts), the Firestore helpers             *)
(*   (src/src/utils/firebase.ts), and withRetry, CircuitBreaker and        *)
(*   RateLimiter (src/src/utils/retryHelper.ts), each of the three also    *)
(*   exercised on its own by concurrent callers.                           *)
(*                                                                         *)
(* One Node.js process runs Orchestrator.run; the per-item handlers of a   *)
(* batch are promises that interleave at their await points.  Every await  *)
(* of processDistrict is one action.  Firestore is the durable state: it   *)
(* survives the process, the Orchestrator object does not.                 *)
(***************************************************************************)
EXTENDS Integers, Sequences, FiniteSets, TLC

\* ------------------------------------------------------------------ bounds
\* Size of the district population the CDE loader can return (937 in the
\* deployment); the loader returns the districts 1..n for some n <= NItems.
NItems == 3
\* const batchSize = 50 (orchestrator.ts:75), scaled down.
batchSize == 2
\* Largest value of config.scraper.maxConcurrent (default 5) considered.
MaxConcurrent == 2
\* Number of times the process may be started (first start and restarts).
MaxRuns == 2
\* Number of Firestore calls that may reject in one behaviour.
MaxFaults == 1
\* Number of 'district_logs' records present when the resume computation is
\* examined on its own.
MaxLogs == 1

\* Number of concurrent callers of RateLimiter.waitForToken.
NCallers == 3
\* Number of concurrent callers of CircuitBreaker.execute, each of which calls
\* it again and again.
NClients == 2
\* Date.now() runs from 0 to MaxTime ticks.
MaxTime == 4
\* RateLimiter.maxTokens, the burst capacity (30 in orchestrator.ts:36), in tokens.
maxTokens == 2
\* Largest maxRetries withRetry is called with.
MaxMaxRetries == 2
\* Largest number of failing invocations before the operation succeeds.
MaxFails == 3
\* Largest CircuitBreaker.threshold considered (default 5).
MaxThreshold == 2
\* Largest CircuitBreaker.timeout considered, in ticks (default 60000 ms).
MaxTimeout == 1

\* Most contacts of a district with an address to verify.
MaxEmails == 2
\* Districts whose contacts go through the verifier.
MaxVerifications == 2

\* -------------------------------------------------------- program constants
\* The lifetime of a greylist cache entry, 300000 ms (emailVerifier.ts:19), in
\* ticks of 150 s.
greylistTTL == 2
\* RetryConfigs.network.maxRetries
networkMaxRetries == 5
\* RetryConfigs.database.maxRetries
databaseMaxRetries == 3

Ids == 1..NItems
\* The email addresses the contacts of the districts carry.
Addresses == {1, 2}
Callers == 1..NCallers
Clients == 1..NClients

VARIABLES
    \* ---- Firestore (durable)
    districts,        \* collection 'districts': id -> status ("absent" = no document)
    districtContacts, \* collection 'districtContacts': ids with a saved result
    district_logs,    \* collection 'district_logs': records [districtId, runId, status]
    scrape_progress,  \* collection 'scrape_progress': runId -> progress document
    \* ---- the process (lost when it exits)
    runPc,            \* position of Orchestrator.run
    runId,            \* ProgressTracker.runId (0: no tracker constructed)
    loaded,           \* local `districts` of run(): sequence of ids
    unprocessedIds,   \* local `unprocessedIds` of run(): set of ids
    toProcess,        \* local `districtsToProcess` of run(): sequence of ids
    batchStart,       \* loop variable i of run()
    hpc,              \* per item: position of its handler (limit(...) + processDistrict)
    attempt,          \* per item: loop variable `attempt` of the withRetry in progress
    contacts,         \* per item: confidences of local `contacts` after the acquisition
                      \* stage (recorded when observe)
    scrapeError,      \* per item: what the last scraper.scrapeDistrict call rejected
                      \* with (recorded when observe)
    threw,            \* run() is leaving through its catch block
    \* ---- environment
    population,       \* number of districts in the CDE file
    concurrency,      \* config.scraper.maxConcurrent (MAX_CONCURRENT_SCRAPERS)
    faultsLeft,       \* how many more Firestore calls may reject
    runsLeft,         \* how many more times the process may be started
    observe,          \* whether contacts and scrapeError are recorded
    \* ---- history (observation only)
    startStatus,      \* districts' statuses when the current run started
    scraped,          \* ids for which scraper.scrapeDistrict was invoked in this run
    caught,           \* ids whose processDistrict entered its catch block in this run
    nBatches,         \* processBatch calls of this run
    nDelays           \* inter-batch delays awaited in this run

VARIABLES
    \* ---- utility classes of retryHelper.ts, exercised on their own
    now,              \* Date.now(), in ticks
    \* RateLimiter
    tokens,           \* this.tokens (global bucket), in token units
    lastRefill,       \* this.lastRefill
    domainBuckets,    \* this.domainBuckets: hostname -> [tokens, lastRefill]
    wpc,              \* per caller: position of its waitForToken call
    wurl,             \* per caller: the url argument of its call
    wakeAt,           \* per caller: when the timer of its delay() is due
    detached,         \* per caller: tokens of the object its local `bucket` refers to
                      \* once reset() has removed it from the map (-1: it is in the map)
    \* withRetry
    opts,             \* the merged options of the call
    fails,            \* how many invocations of fn fail before it succeeds
    rpc,              \* position of the withRetry call
    rattempt,         \* loop variable `attempt`
    lastError,        \* local `lastError`
    \* CircuitBreaker
    threshold,        \* this.threshold
    timeout,          \* this.timeout, in ticks
    failures,         \* this.failures
    lastFailureTime,  \* this.lastFailureTime
    state,            \* this.state
    bpc,              \* per caller: position of its execute call
    \* ---- history (observation only)
    nCalls,           \* waitForToken calls made so far
    callNo,           \* per caller: the number of its waitForToken call (0: none)
    domainTaken,      \* per caller: tokens its call deducted from a domain bucket
    globalTaken,      \* per caller: tokens its call deducted from the global bucket
    doneAt,           \* per caller: when its waitForToken call returned
    invocations,      \* errors and "ok" returned by the invocations of fn, in order
    delays,           \* delays passed to sleep, in order, as fractions <<num, den>>
    onRetryCalls,     \* second arguments of the onRetry calls, in order
    thrown,           \* what withRetry rejected with ("none": nothing)
    streak,           \* operations that failed since the last one that succeeded
    probeOf,          \* per caller: breaker state in which its operation was invoked
    \* CSVExporter
    exported,         \* what each exportResults call wrote: [contacts, stats, summary]
    \* EmailVerifier and the verification block of processDistrict
    greylistCache,    \* this.greylistCache: address -> Date.now() of the entry (-1: none)
    emailsToVerify,   \* processDistrict's `emailsToVerify`
    vpc,              \* position of the verification block
    vbatch,           \* the `emails` argument of the verifyBatch call in progress
    vcalls,           \* per email of vbatch: state of its verifyEmail call
    verificationResults, \* the Map returned by verifyBatch (0: no entry)
    retryResults,     \* the Map returned by retryGreylisted (0: no entry)
    submitted,        \* history: verifyEmail calls per address for the district
    nVerifications    \* history: districts whose verification block was entered

limiterVars == <<tokens, lastRefill, domainBuckets, wpc, wurl, wakeAt, detached, nCalls, callNo,
                 domainTaken, globalTaken, doneAt>>
retryVars   == <<opts, fails, rpc, rattempt, lastError, invocations, delays,
                 onRetryCalls, thrown>>
breakerVars == <<threshold, timeout, failures, lastFailureTime, state, bpc, streak,
                 probeOf>>
\* Everything the orchestrator's own steps leave alone.
verifierVars == <<greylistCache, emailsToVerify, vpc, vbatch, vcalls,
                  verificationResults, retryResults, submitted, nVerifications>>
libVars     == <<now, limiterVars, retryVars, breakerVars, exported, verifierVars>>

vars == <<districts, districtContacts, district_logs, scrape_progress, runPc, runId,
          loaded, unprocessedIds, toProcess, batchStart, hpc, attempt, contacts,
          scrapeError, threw, population, concurrency, faultsLeft, runsLeft, observe,
          startStatus, scraped, caught,
          nBatches, nDelays, libVars>>

storeVars == <<districts, districtContacts, district_logs, scrape_progress>>
localVars == <<runId, loaded, unprocessedIds, toProcess, batchStart>>
\* The locals of the handlers that only the acquisition and the save stage touch.
itemVars  == <<attempt, contacts, scrapeError>>
envVars   == <<population, concurrency, runsLeft, observe>>
histVars  == <<startStatus, scraped, caught, nBatches, nDelays>>

\* ------------------------------------------------------------------ helpers
Range(s) == {s[k] : k \in 1..Len(s)}

\* The ids of a set as a sequence in document order (ascending id).
RECURSIVE SeqOfSet(_)
SeqOfSet(S) ==
    IF S = {} THEN <<>>
    ELSE LET m == CHOOSE x \in S : \A y \in S : x <= y
         IN <<m>> \o SeqOfSet(S \ {m})

\* Array.prototype.filter
Filter(s, Keep(_)) == SelectSeq(s, Keep)

\* Outcomes of one Firestore call: it resolves, or rejects (unavailable, deadline
\* exceeded, permission denied).
StoreOutcomes == IF faultsLeft > 0 THEN {"ok", "raise"} ELSE {"ok"}

\* A rejected call uses up one of the rejections the specification allows.
Spend(out) == faultsLeft' = IF out = "raise" THEN faultsLeft - 1 ELSE faultsLeft

\* A progress document that does not exist.
NoDoc == [status |-> "none", total |-> 0, pending |-> 0, processing |-> 0,
          completed |-> 0, failed |-> 0, errors |-> {}, currentDistrict |-> 0]

\* this.progressDoc: the document 'scrape_progress/<runId>' of the current tracker.
progressDoc == IF runId \in DOMAIN scrape_progress THEN scrape_progress[runId] ELSE NoDoc

\* ------------------------------------------------ ProgressTracker documents
\* initializeRun(totalDistricts): the document written by progressDoc.set.
initializeRunDoc(totalDistricts) ==
    [status |-> "running", total |-> totalDistricts, pending |-> totalDistricts,
     processing |-> 0, completed |-> 0, failed |-> 0, errors |-> {},
     currentDistrict |-> 0]

\* Mutant of startDistrictDoc: stats.pending is not decremented.
startDistrictDocKeepsPending(doc, id) ==
    [doc EXCEPT !.currentDistrict = id,
                !.processing = @ + 1]

\* startDistrict: currentDistrict set, stats.processing +1, stats.pending -1.
startDistrictDoc(doc, id) ==
    [doc EXCEPT !.currentDistrict = id,
                !.processing = @ + 1,
                !.pending = @ - 1]

\* completeDistrict: currentDistrict deleted, stats.processing -1, stats.completed +1.
completeDistrictDoc(doc) ==
    [doc EXCEPT !.currentDistrict = 0,
                !.processing = @ - 1,
                !.completed = @ + 1]

\* failDistrict: currentDistrict deleted, stats.processing -1, stats.failed +1,
\* errors arrayUnion(errorEntry).
failDistrictDoc(doc, id) ==
    [doc EXCEPT !.currentDistrict = 0,
                !.processing = @ - 1,
                !.failed = @ + 1,
                !.errors = @ \cup {id}]

\* completeRun / failRun: status field.
completeRunDoc(doc) == [doc EXCEPT !.status = "completed"]
failRunDoc(doc) == [doc EXCEPT !.status = "failed"]

\* DocumentReference.update rejects when the document does not exist.
DocExists(doc) == doc.status # "none"

\* A record of 'district_logs'.
DistrictLog(id, rid, st) == [districtId |-> id, runId |-> rid, status |-> st]

\* Mutant of getUnprocessedDistricts: the logs are not filtered by run id.
getUnprocessedDistrictsAnyRun(dists, logs, rid) ==
    LET districtsSnapshot ==
            SeqOfSet({id \in DOMAIN dists : dists[id] \in {"pending", "processing"}})
        logsSnapshot == {l \in logs : l.status = "success"}
        processedIds == {l.districtId : l \in logsSnapshot}
        NotProcessed(id) == id \notin processedIds
    IN Filter(districtsSnapshot, NotProcessed)

\* getUnprocessedDistricts: the documents of 'districts' whose status is in
\* ['pending', 'processing'], as ids in document order, without the ids that
\* have a 'success' log of this run.
getUnprocessedDistricts(dists, logs, rid) ==
    LET districtsSnapshot ==
            SeqOfSet({id \in DOMAIN dists : dists[id] \in {"pending", "processing"}})
        logsSnapshot == {l \in logs : l.runId = rid /\ l.status = "success"}
        processedIds == {l.districtId : l \in logsSnapshot}
        NotProcessed(id) == id \notin processedIds
    IN Filter(districtsSnapshot, NotProcessed)

\* isDistrictProcessed: a 'success' log of this run exists for the district.
isDistrictProcessed(logs, rid, id) ==
    \E l \in logs : l.runId = rid /\ l.districtId = id /\ l.status = "success"

\* ------------------------------------------------------- firebase.ts helpers
\* Mutant of getProcessingStatsTotal: the collection always looks empty.
getProcessingStatsTotalEmpty(dists) == 0

\* getProcessingStats().total: number of documents of 'districts'.
getProcessingStatsTotal(dists) == Cardinality({id \in DOMAIN dists : dists[id] # "absent"})

\* getPendingDistricts: where('status', '==', 'pending').orderBy('name').
getPendingDistricts(dists) == SeqOfSet({id \in DOMAIN dists : dists[id] = "pending"})

\* CDELoader.loadDistricts: the districts of the file, each with status 'pending'.
loadDistricts == SeqOfSet(1..population)

\* saveDistricts: batch.set of every loaded district (status 'pending').
saveDistricts(dists, list) ==
    [id \in DOMAIN dists |-> IF id \in Range(list) THEN "pending" ELSE dists[id]]

\* updateDistrictStatus(districtId, status).
updateDistrictStatus(dists, id, st) == [dists EXCEPT ![id] = st]

\* district.website is optional (types/index.ts); district 1 has none.
HasWebsite(id) == id > 1

\* ----------------------------------------------------------- p-limit (limit)
\* Handler positions at which the limited function is executing.
Running == {"check", "start", "markProcessing", "rate", "scrape", "stages", "save",
            "markCompleted", "completeLog", "completeUpd",
            "failLog", "failUpd", "markFailed"}

\* p-limit's activeCount.
activeCount == Cardinality({i \in Ids : hpc[i] \in Running})

\* Mutant of limitHasSlot: the handlers are started without the limiter.
limitHasSlotAlways == TRUE

\* pLimit(config.scraper.maxConcurrent): a queued function is started only while
\* fewer than `concurrency` are executing.
limitHasSlot == activeCount < concurrency

\* p-limit's queue is first-in first-out: the functions were enqueued in batch order.
limitHead(i) == hpc[i] = "queued" /\ \A j \in Ids : hpc[j] = "queued" => i <= j

\* ------------------------------------------------------------ run(): batches
\* Mutant of batchSlice: slice(i) without the end index.
batchSliceToEnd(list, i) == SubSeq(list, i + 1, Len(list))

\* Mutant of batchSlice: the slice starts at the last district of the
\* previous batch.
batchSliceOverlapping(list, i) ==
    SubSeq(list, IF i > 0 THEN i ELSE 1,
           IF i + batchSize < Len(list) THEN i + batchSize ELSE Len(list))

\* districtsToProcess.slice(i, i + batchSize), with i = batchStart.
batchSlice(list, i) == SubSeq(list, i + 1, IF i + batchSize < Len(list) THEN i + batchSize ELSE Len(list))

\* Mutant of moreBatches: the pause is taken after every batch.
moreBatchesAlways(i, list) == i < Len(list)

\* if (i + batchSize < districtsToProcess.length): another batch follows.
moreBatches(i, list) == i + batchSize < Len(list)

\* The ids of the batch being processed.
currentBatch == Range(batchSlice(toProcess, batchStart))

\* Mutant of promisesSettled: Promise.race instead of Promise.all.
promisesSettledRace(batch) == \E i \in batch : hpc[i] = "settled"

\* await Promise.all(promises): every handler of the batch has settled (the
\* limited function catches whatever processDistrict throws, so none rejects).
promisesSettled(batch) == \A i \in batch : hpc[i] = "settled"

\* ------------------------------------------- retryHelper.ts: constructed state
\* One token, in the units the buckets are counted in.  Time is counted in
\* ticks and refillRate in units per tick, so that `timePassed * refillRate`
\* is a whole number of units: with refillRate = 1 a token takes TokenUnits
\* ticks to refill (0.5 tokens per second in the orchestrator: a tick is 1 s).
TokenUnits == 2
\* this.refillRate, in units per tick.
refillRate == 1
\* this.maxTokens, in units.
capacity == maxTokens * TokenUnits

Min(a, b) == IF a <= b THEN a ELSE b

\* Math.ceil(a / b) for a >= 0, b > 0.
CeilDiv(a, b) == (a + b - 1) \div b

\* new Map(): no domain bucket.
NoBuckets == [h \in {} |-> 0]

\* new RateLimiter(maxTokens, refillRate) at time `now`.
InitLimiter ==
    /\ tokens = capacity
    /\ lastRefill = now
    /\ domainBuckets = NoBuckets
    /\ wpc = [c \in Callers |-> "idle"]
    /\ wurl = [c \in Callers |-> ""]
    /\ wakeAt = [c \in Callers |-> 0]
    /\ detached = [c \in Callers |-> -1]
    /\ nCalls = 0
    /\ callNo = [c \in Callers |-> 0]
    /\ domainTaken = [c \in Callers |-> 0]
    /\ globalTaken = [c \in Callers |-> 0]
    /\ doneAt = [c \in Callers |-> -1]

\* DEFAULT_OPTIONS of withRetry; backoffFactor is the fraction <<num, den>>.
DEFAULT_OPTIONS ==
    [maxRetries |-> 3, initialDelay |-> 1000, maxDelay |-> 30000,
     backoffFactor |-> <<2, 1>>, retryableErrors |-> {}]

\* No withRetry call is in progress.
InitRetry ==
    /\ opts = DEFAULT_OPTIONS
    /\ fails = 0
    /\ rpc = "idle"
    /\ rattempt = 0
    /\ lastError = "none"
    /\ invocations = <<>>
    /\ delays = <<>>
    /\ onRetryCalls = <<>>
    /\ thrown = "none"

\* The fields of a new CircuitBreaker(threshold, timeout) other than its arguments.
NewBreaker ==
    /\ failures = 0
    /\ lastFailureTime = 0
    /\ state = "closed"
    /\ bpc = [c \in Clients |-> "idle"]
    /\ streak = 0
    /\ probeOf = [c \in Clients |-> "none"]

\* new EmailVerifier(): an empty greylist cache, no verification started.
InitVerifier ==
    /\ greylistCache = [a \in Addresses |-> -1]
    /\ emailsToVerify = <<>>
    /\ vpc = "idle"
    /\ vbatch = <<>>
    /\ vcalls = <<>>
    /\ verificationResults = [a \in Addresses |-> "none"]
    /\ retryResults = [a \in Addresses |-> "none"]
    /\ submitted = [a \in Addresses |-> 0]
    /\ nVerifications = 0

\* The utility objects as constructed, nothing called on them.
InitLib ==
    /\ now = 0
    /\ InitLimiter
    /\ InitRetry
    /\ NewBreaker
    /\ threshold = 1
    /\ timeout = 0
    /\ exported = <<>>
    /\ InitVerifier

\* ---------------------------------------------------------------------- Init
NoHandlers == [i \in Ids |-> "idle"]
\* `let contacts: Contact[] = []` in every handler, no scraper call made.
NoContacts == [i \in Ids |-> {}]
NoScrapeErrors == [i \in Ids |-> "none"]

NoAttempts == [i \in Ids |-> 0]

InitStore ==
    /\ districts = [i \in Ids |-> "absent"]
    /\ districtContacts = {}
    /\ district_logs = {}
    /\ scrape_progress = [r \in 1..MaxRuns |-> NoDoc]

InitProcess ==
    /\ runPc = "idle"
    /\ runId = 0
    /\ loaded = <<>>
    /\ unprocessedIds = <<>>
    /\ toProcess = <<>>
    /\ batchStart = 0
    /\ hpc = NoHandlers
    /\ attempt = NoAttempts
    /\ contacts = NoContacts
    /\ scrapeError = NoScrapeErrors
    /\ threw = FALSE
    /\ startStatus = [i \in Ids |-> "absent"]
    /\ scraped = {}
    /\ caught = {}
    /\ nBatches = 0
    /\ nDelays = 0

\* One execution of the process, Firestore calls may reject.
Init ==
    /\ InitStore
    /\ InitProcess
    /\ InitLib
    /\ population \in 0..NItems
    /\ concurrency \in 1..MaxConcurrent
    /\ observe = FALSE
    /\ faultsLeft = MaxFaults
    /\ runsLeft = 1

\* -------------------------------------------------------- Orchestrator.run()
\* main(): new Orchestrator(); orchestrator.run().
run ==
    /\ runPc \in {"idle", "exited"}
    /\ runsLeft > 0
    /\ runsLeft' = runsLeft - 1
    /\ runPc' = "initialize"
    /\ runId' = 0
    /\ loaded' = <<>>
    /\ unprocessedIds' = <<>>
    /\ toProcess' = <<>>
    /\ batchStart' = 0
    /\ hpc' = NoHandlers
    /\ attempt' = NoAttempts
    /\ contacts' = NoContacts
    /\ scrapeError' = NoScrapeErrors
    /\ threw' = FALSE
    /\ startStatus' = districts
    /\ scraped' = {}
    /\ caught' = {}
    /\ nBatches' = 0
    /\ nDelays' = 0
    /\ UNCHANGED <<storeVars, population, concurrency, faultsLeft, observe>>
    /\ UNCHANGED libVars

\* The run id of the tracker constructed by the k-th start of the process
\* (generateRunId: unique per execution).
generateRunId == MaxRuns - runsLeft

\* initialize(): scraper and pdfProcessor initialised, then the tracker is built.
initialize ==
    /\ runPc = "initialize"
    /\ \E out \in {"ok", "raise"} :
        IF out = "ok"
        THEN /\ runId' = generateRunId
             /\ runPc' = "load"
        ELSE /\ runId' = runId
             /\ runPc' = "catch"
    /\ UNCHANGED <<storeVars, loaded, unprocessedIds, toProcess, batchStart, hpc,
                   itemVars, threw, envVars, faultsLeft, histVars>>
    /\ UNCHANGED libVars

\* loadOrGetDistricts(): the CDE file when 'districts' is empty, else the
\* pending districts.
loadOrGetDistricts ==
    /\ runPc = "load"
    /\ \E out \in StoreOutcomes :
        /\ Spend(out)
        /\ IF out = "ok"
           THEN /\ IF getProcessingStatsTotal(districts) = 0
                   THEN /\ loaded' = loadDistricts
                        /\ districts' = saveDistricts(districts, loadDistricts)
                   ELSE /\ loaded' = getPendingDistricts(districts)
                        /\ districts' = districts
                /\ runPc' = "initializeRun"
           ELSE /\ runPc' = "catch"
                /\ UNCHANGED <<loaded, districts>>
    /\ UNCHANGED <<districtContacts, district_logs, scrape_progress, runId,
                   unprocessedIds, toProcess, batchStart, hpc, itemVars, threw,
                   envVars, histVars>>
    /\ UNCHANGED libVars

\* progressTracker.initializeRun(districts.length).
initializeRun ==
    /\ runPc = "initializeRun"
    /\ \E out \in StoreOutcomes :
        /\ Spend(out)
        /\ IF out = "ok"
           THEN /\ scrape_progress' = [scrape_progress EXCEPT ![runId] = initializeRunDoc(Len(loaded))]
                /\ runPc' = "unprocessed"
           ELSE /\ runPc' = "catch"
                /\ UNCHANGED scrape_progress
    /\ UNCHANGED <<districts, districtContacts, district_logs, localVars, hpc,
                   itemVars, threw, envVars, histVars>>
    /\ UNCHANGED libVars

\* unprocessedIds = getUnprocessedDistricts();
\* districtsToProcess = districts.filter(d => unprocessedIds.includes(d.id)).
resumeFilter ==
    /\ runPc = "unprocessed"
    /\ \E out \in StoreOutcomes :
        /\ Spend(out)
        /\ IF out = "ok"
           THEN LET ids == getUnprocessedDistricts(districts, district_logs, runId)
                    Unprocessed(d) == d \in Range(ids)
                IN /\ unprocessedIds' = ids
                   /\ toProcess' = Filter(loaded, Unprocessed)
                   /\ runPc' = "loop"
           ELSE /\ runPc' = "catch"
                /\ UNCHANGED <<unprocessedIds, toProcess>>
    /\ UNCHANGED <<storeVars, runId, loaded, batchStart, hpc, itemVars, threw,
                   envVars, histVars>>
    /\ UNCHANGED libVars

\* for (i < districtsToProcess.length): processBatch(batch) hands every district
\* of the slice to limit(...).
processBatch ==
    /\ runPc = "loop"
    /\ batchStart < Len(toProcess)
    /\ hpc' = [i \in Ids |-> IF i \in currentBatch THEN "queued" ELSE hpc[i]]
    /\ nBatches' = nBatches + 1
    /\ runPc' = "batch"
    /\ UNCHANGED <<storeVars, localVars, itemVars, threw, envVars, faultsLeft, startStatus,
                   scraped, caught, nDelays>>
    /\ UNCHANGED libVars

\* processBatch returns: await Promise.all(promises).
batchSettled ==
    /\ runPc = "batch"
    /\ promisesSettled(currentBatch)
    /\ runPc' = "progress"
    /\ UNCHANGED <<storeVars, localVars, hpc, itemVars, threw, envVars, faultsLeft, histVars>>
    /\ UNCHANGED libVars

\* getProgress() after the batch, then `if (i + batchSize < length)` the pause.
getProgress ==
    /\ runPc = "progress"
    /\ \E out \in StoreOutcomes :
        /\ Spend(out)
        /\ IF out = "ok"
           THEN IF moreBatches(batchStart, toProcess)
                THEN /\ runPc' = "delay"
                     /\ batchStart' = batchStart
                ELSE /\ runPc' = "loop"
                     /\ batchStart' = batchStart + batchSize
           ELSE /\ runPc' = "catch"
                /\ batchStart' = batchStart
    /\ UNCHANGED <<storeVars, runId, loaded, unprocessedIds, toProcess, hpc,
                   itemVars, threw, envVars, histVars>>
    /\ UNCHANGED libVars

\* await new Promise(resolve => setTimeout(resolve, 5000)); i += batchSize.
interBatchDelay ==
    /\ runPc = "delay"
    /\ nDelays' = nDelays + 1
    /\ batchStart' = batchStart + batchSize
    /\ runPc' = "loop"
    /\ UNCHANGED <<storeVars, runId, loaded, unprocessedIds, toProcess, hpc,
                   itemVars, threw, envVars, faultsLeft, startStatus, scraped, caught, nBatches>>
    /\ UNCHANGED libVars

\* progressTracker.completeRun() once the loop has ended.
completeRun ==
    /\ runPc = "loop"
    /\ ~(batchStart < Len(toProcess))
    /\ \E out \in StoreOutcomes :
        /\ Spend(out)
        /\ IF out = "ok" /\ DocExists(progressDoc)
           THEN /\ scrape_progress' = [scrape_progress EXCEPT ![runId] = completeRunDoc(@)]
                /\ runPc' = "export"
           ELSE /\ runPc' = "catch"
                /\ UNCHANGED scrape_progress
    /\ UNCHANGED <<districts, districtContacts, district_logs, localVars, hpc,
                   itemVars, threw, envVars, histVars>>
    /\ UNCHANGED libVars

\* exportResults(): reads Firestore and writes the CSV files.
exportResults ==
    /\ runPc = "export"
    /\ \E out \in {"ok", "raise"} :
        runPc' = IF out = "ok" THEN "cleanup" ELSE "catch"
    /\ UNCHANGED <<storeVars, localVars, hpc, itemVars, threw, envVars, faultsLeft, histVars>>
    /\ UNCHANGED libVars

\* catch (error): progressTracker.failRun(message); throw error.  Without a
\* tracker (initialize() threw) the call itself throws a TypeError.
catchFailRun ==
    /\ runPc = "catch"
    /\ \E out \in StoreOutcomes :
        /\ Spend(out)
        /\ IF out = "ok" /\ runId # 0 /\ DocExists(progressDoc)
           THEN scrape_progress' = [scrape_progress EXCEPT ![runId] = failRunDoc(@)]
           ELSE UNCHANGED scrape_progress
    /\ threw' = TRUE
    /\ runPc' = "cleanup"
    /\ UNCHANGED <<districts, districtContacts, district_logs, localVars, hpc,
                   itemVars, envVars, histVars>>
    /\ UNCHANGED libVars

\* finally: cleanup(); then main() calls process.exit.
cleanup ==
    /\ runPc = "cleanup"
    /\ runPc' = "exited"
    /\ UNCHANGED <<storeVars, localVars, hpc, itemVars, threw, envVars, faultsLeft, histVars>>
    /\ UNCHANGED libVars

\* ------------------------------------------------- processDistrict(district)
\* Variables no handler step changes.
handlerFrame == <<runPc, localVars, threw, envVars, startStatus, nBatches, nDelays>>

\* The handler of i moves to position p.
Goto(i, p) == hpc' = [hpc EXCEPT ![i] = p]

\* The handler of i enters the catch block of processDistrict (line 270).
Catch(i) ==
    /\ Goto(i, "failLog")
    /\ caught' = caught \cup {i}

\* p-limit starts the next queued function when a slot is free.
limitNext(i) ==
    /\ runPc = "batch"
    /\ limitHead(i)
    /\ limitHasSlot
    /\ Goto(i, "check")
    /\ UNCHANGED <<storeVars, itemVars, scraped, caught, handlerFrame, faultsLeft>>
    /\ UNCHANGED libVars

\* if (await progressTracker.isDistrictProcessed(id)) return;
checkProcessed(i) ==
    /\ hpc[i] = "check"
    /\ \E out \in StoreOutcomes :
        /\ Spend(out)
        /\ IF out = "ok"
           THEN /\ IF isDistrictProcessed(district_logs, runId, i)
                   THEN Goto(i, "settled")
                   ELSE Goto(i, "start")
                /\ UNCHANGED caught
           ELSE Catch(i)
    /\ UNCHANGED <<storeVars, itemVars, scraped, handlerFrame>>
    /\ UNCHANGED libVars

\* await progressTracker.startDistrict(district);
startDistrict(i) ==
    /\ hpc[i] = "start"
    /\ \E out \in StoreOutcomes :
        /\ Spend(out)
        /\ IF out = "ok" /\ DocExists(progressDoc)
           THEN /\ scrape_progress' = [scrape_progress EXCEPT ![runId] = startDistrictDoc(@, i)]
                /\ Goto(i, "markProcessing")
                /\ UNCHANGED caught
           ELSE /\ Catch(i)
                /\ UNCHANGED scrape_progress
    /\ UNCHANGED <<districts, districtContacts, district_logs, itemVars, scraped,
                   handlerFrame>>
    /\ UNCHANGED libVars

\* await firebase.updateDistrictStatus(district.id, 'processing');
markProcessing(i) ==
    /\ hpc[i] = "markProcessing"
    /\ \E out \in StoreOutcomes :
        /\ Spend(out)
        /\ IF out = "ok"
           THEN /\ districts' = updateDistrictStatus(districts, i, "processing")
                /\ Goto(i, "rate")
                /\ UNCHANGED caught
           ELSE /\ Catch(i)
                /\ UNCHANGED districts
    /\ UNCHANGED <<districtContacts, district_logs, scrape_progress, itemVars,
                   scraped, handlerFrame>>
    /\ UNCHANGED libVars

\* await rateLimiter.waitForToken(district.website); then `if (district.website)`.
waitForToken(i) ==
    /\ hpc[i] = "rate"
    /\ Goto(i, IF HasWebsite(i) THEN "scrape" ELSE "stages")
    /\ UNCHANGED <<storeVars, itemVars, scraped, caught, handlerFrame, faultsLeft>>
    /\ UNCHANGED libVars

\* Error messages that contain 'network', 'timeout', 'econnrefused', 'enotfound',
\* 'econnreset' or 'etimedout'.
NetworkErrors == {"timeout"}

\* Thrown values that are not instances of Error.
NonErrors == {"a string"}

\* isRetryableError(error, retryableErrors): network errors always; with a
\* non-empty retryableErrors only the listed error types; otherwise every error.
isRetryableError(error, retryableErrors) ==
    IF error \notin NonErrors /\ error \in NetworkErrors THEN TRUE
    ELSE IF retryableErrors # {} /\ error \notin NonErrors THEN error \in retryableErrors
    ELSE TRUE

\* RetryConfigs.network and RetryConfigs.database set no retryableErrors:
\* DEFAULT_OPTIONS.retryableErrors = [].
defaultRetryableErrors == {}

\* emailGenerator.extractDomainFromWebsite(district.website) is not null:
\* district 2 has a website no domain can be taken from.
HasDomain(id) == id > 2

\* Confidences of the contacts the scraper returns (part_003 line 409).
scrapedContacts == {70, 90}

\* Mutant of fallbackContacts: the department contacts whatever the domain.
fallbackContactsAnyDomain(id) == {60}

\* Lines 159-170: the contacts that replace the result of a scrape that was
\* rejected with 'CAPTCHA_DETECTED': the department emails with confidence 60
\* when there is a domain, otherwise contacts stays empty.
fallbackContacts(id) == IF HasDomain(id) THEN {60} ELSE {}

\* f with the value v for item i, where the acquisition stage is observed.
Recorded(f, i, v) == IF observe THEN [f EXCEPT ![i] = v] ELSE f

\* One pass of the withRetry loop around scraper.scrapeDistrict
\* (RetryConfigs.network).  A rethrown 'CAPTCHA_DETECTED' is replaced by the
\* department contacts, any other error reaches the catch block.
scrapeDistrict(i) ==
    /\ hpc[i] = "scrape"
    /\ scraped' = scraped \cup {i}
    /\ \E out \in {"ok", "CAPTCHA_DETECTED", "timeout"} :
        /\ scrapeError' = Recorded(scrapeError, i, IF out = "ok" THEN "none" ELSE out)
        /\ IF out = "ok"
           THEN /\ Goto(i, "stages")
                /\ attempt' = [attempt EXCEPT ![i] = 0]
                /\ contacts' = Recorded(contacts, i, scrapedContacts)
                /\ UNCHANGED caught
           ELSE IF isRetryableError(out, defaultRetryableErrors) /\ attempt[i] < networkMaxRetries
           THEN /\ attempt' = [attempt EXCEPT ![i] = @ + 1]
                /\ UNCHANGED <<hpc, caught, contacts>>
           ELSE /\ attempt' = [attempt EXCEPT ![i] = 0]
                /\ IF out = "CAPTCHA_DETECTED"
                   THEN /\ Goto(i, "stages")
                        /\ contacts' = Recorded(contacts, i, fallbackContacts(i))
                        /\ UNCHANGED caught
                   ELSE /\ Catch(i)
                        /\ UNCHANGED contacts
    /\ UNCHANGED <<storeVars, handlerFrame, faultsLeft>>
    /\ UNCHANGED libVars

\* loader.loadDistrictContacts(), the email generator and the email verifier
\* (verifyBatch, retryGreylisted): no shared state; the loader can throw.
enrichAndVerify(i) ==
    /\ hpc[i] = "stages"
    /\ \E out \in {"ok", "raise"} :
        IF out = "ok"
        THEN Goto(i, "save") /\ UNCHANGED caught
        ELSE Catch(i)
    /\ UNCHANGED <<storeVars, itemVars, scraped, handlerFrame, faultsLeft>>
    /\ UNCHANGED libVars

\* Mutant of saveDistrictContacts: the call returns without having written
\* the document of the item.
saveDistrictContactsUnwritten(i) ==
    /\ hpc[i] = "save"
    /\ Goto(i, "markCompleted")
    /\ attempt' = [attempt EXCEPT ![i] = 0]
    /\ UNCHANGED <<storeVars, contacts, scrapeError, scraped, caught, handlerFrame,
                   faultsLeft>>
    /\ UNCHANGED libVars

\* One pass of the withRetry loop around firebase.saveDistrictContacts
\* (RetryConfigs.database).
saveDistrictContacts(i) ==
    /\ hpc[i] = "save"
    /\ \E out \in {"ok", "raise"} :
        /\ UNCHANGED faultsLeft
        /\ IF out = "ok"
           THEN /\ districtContacts' = districtContacts \cup {i}
                /\ Goto(i, "markCompleted")
                /\ attempt' = [attempt EXCEPT ![i] = 0]
                /\ UNCHANGED caught
           ELSE IF isRetryableError(out, defaultRetryableErrors) /\ attempt[i] < databaseMaxRetries
           THEN /\ attempt' = [attempt EXCEPT ![i] = @ + 1]
                /\ UNCHANGED <<hpc, caught, districtContacts>>
           ELSE /\ attempt' = [attempt EXCEPT ![i] = 0]
                /\ Catch(i)
                /\ UNCHANGED districtContacts
    /\ UNCHANGED <<districts, district_logs, scrape_progress, scraped, handlerFrame>>
    /\ UNCHANGED <<contacts, scrapeError>>
    /\ UNCHANGED libVars

\* await firebase.updateDistrictStatus(district.id, 'completed');
markCompleted(i) ==
    /\ hpc[i] = "markCompleted"
    /\ \E out \in StoreOutcomes :
        /\ Spend(out)
        /\ IF out = "ok"
           THEN /\ districts' = updateDistrictStatus(districts, i, "completed")
                /\ Goto(i, "completeLog")
                /\ UNCHANGED caught
           ELSE /\ Catch(i)
                /\ UNCHANGED districts
    /\ UNCHANGED <<districtContacts, district_logs, scrape_progress, itemVars,
                   scraped, handlerFrame>>
    /\ UNCHANGED libVars

\* completeDistrict, first await: db.collection('district_logs').add(log).
completeDistrictLog(i) ==
    /\ hpc[i] = "completeLog"
    /\ \E out \in StoreOutcomes :
        /\ Spend(out)
        /\ IF out = "ok"
           THEN /\ district_logs' = district_logs \cup {DistrictLog(i, runId, "success")}
                /\ Goto(i, "completeUpd")
                /\ UNCHANGED caught
           ELSE /\ Catch(i)
                /\ UNCHANGED district_logs
    /\ UNCHANGED <<districts, districtContacts, scrape_progress, itemVars, scraped,
                   handlerFrame>>
    /\ UNCHANGED libVars

\* completeDistrict, second await: progressDoc.update(...); the handler settles.
completeDistrict(i) ==
    /\ hpc[i] = "completeUpd"
    /\ \E out \in StoreOutcomes :
        /\ Spend(out)
        /\ IF out = "ok" /\ DocExists(progressDoc)
           THEN /\ scrape_progress' = [scrape_progress EXCEPT ![runId] = completeDistrictDoc(@)]
                /\ Goto(i, "settled")
                /\ UNCHANGED caught
           ELSE /\ Catch(i)
                /\ UNCHANGED scrape_progress
    /\ UNCHANGED <<districts, districtContacts, district_logs, itemVars, scraped,
                   handlerFrame>>
    /\ UNCHANGED libVars

\* failDistrict, first await: db.collection('district_logs').add(log).  A
\* rejection leaves processDistrict and is swallowed by the limited function.
failDistrictLog(i) ==
    /\ hpc[i] = "failLog"
    /\ \E out \in StoreOutcomes :
        /\ Spend(out)
        /\ IF out = "ok"
           THEN /\ district_logs' = district_logs \cup {DistrictLog(i, runId, "failed")}
                /\ Goto(i, "failUpd")
           ELSE /\ Goto(i, "settled")
                /\ UNCHANGED district_logs
    /\ UNCHANGED <<districts, districtContacts, scrape_progress, itemVars, scraped,
                   caught, handlerFrame>>
    /\ UNCHANGED libVars

\* failDistrict, second await: progressDoc.update(...).
failDistrict(i) ==
    /\ hpc[i] = "failUpd"
    /\ \E out \in StoreOutcomes :
        /\ Spend(out)
        /\ IF out = "ok" /\ DocExists(progressDoc)
           THEN /\ scrape_progress' = [scrape_progress EXCEPT ![runId] = failDistrictDoc(@, i)]
                /\ Goto(i, "markFailed")
           ELSE /\ Goto(i, "settled")
                /\ UNCHANGED scrape_progress
    /\ UNCHANGED <<districts, districtContacts, district_logs, itemVars, scraped,
                   caught, handlerFrame>>
    /\ UNCHANGED libVars

\* await firebase.updateDistrictStatus(district.id, 'failed', errorMessage);
markFailed(i) ==
    /\ hpc[i] = "markFailed"
    /\ \E out \in StoreOutcomes :
        /\ Spend(out)
        /\ IF out = "ok"
           THEN districts' = updateDistrictStatus(districts, i, "failed")
           ELSE UNCHANGED districts
    /\ Goto(i, "settled")
    /\ UNCHANGED <<districtContacts, district_logs, scrape_progress, itemVars,
                   scraped, caught, handlerFrame>>
    /\ UNCHANGED libVars

processDistrict(i) ==
    \/ limitNext(i)
    \/ checkProcessed(i)
    \/ startDistrict(i)
    \/ markProcessing(i)
    \/ waitForToken(i)
    \/ scrapeDistrict(i)
    \/ enrichAndVerify(i)
    \/ saveDistrictContacts(i)
    \/ markCompleted(i)
    \/ completeDistrictLog(i)
    \/ completeDistrict(i)
    \/ failDistrictLog(i)
    \/ failDistrict(i)
    \/ markFailed(i)

\* --------------------------------------------------------------- specification
Next ==
    \/ run
    \/ initialize
    \/ loadOrGetDistricts
    \/ initializeRun
    \/ resumeFilter
    \/ processBatch
    \/ batchSettled
    \/ getProgress
    \/ interBatchDelay
    \/ completeRun
    \/ exportResults
    \/ catchFailRun
    \/ cleanup
    \/ \E i \in Ids : processDistrict(i)

Spec == Init /\ [][Next]_vars

\* The process dies (SIGINT, SIGKILL, power loss) wherever it is: main()
\* installs no signal handler.  Firestore keeps what was written.
crash ==
    /\ runPc \notin {"idle", "exited"}
    /\ runPc' = "exited"
    /\ hpc' = NoHandlers
    /\ attempt' = NoAttempts
    /\ contacts' = NoContacts
    /\ scrapeError' = NoScrapeErrors
    /\ UNCHANGED <<storeVars, localVars, threw, envVars, faultsLeft, histVars>>
    /\ UNCHANGED libVars

\* Several executions of the process in sequence, each of which may be killed,
\* with MAX_CONCURRENT_SCRAPERS=1; Firestore calls do not reject.
InitResume ==
    /\ InitStore
    /\ InitProcess
    /\ InitLib
    /\ population \in 0..NItems
    /\ concurrency = 1
    /\ observe = FALSE
    /\ faultsLeft = 0
    /\ runsLeft = MaxRuns

NextResume == Next \/ crash

SpecResume == InitResume /\ [][NextResume]_vars

\* ------------------------------------------- the resume computation alone
\* Five districts of which a prior run recorded 1-3 as completed.
ResumeScenario == [i \in 1..5 |-> IF i <= 3 THEN "completed" ELSE "pending"]

\* A tracker about to compute the unprocessed set, over any contents of
\* 'districts' and the five-district scenario.
InitUnprocessed ==
    /\ InitProcess
    /\ InitLib
    /\ \/ districts \in [Ids -> {"pending", "processing", "completed", "failed"}]
       \/ districts = ResumeScenario
    /\ districtContacts = {}
    /\ district_logs = {}
    /\ scrape_progress = [r \in 1..MaxRuns |-> NoDoc]
    /\ population = NItems
    /\ concurrency = 1
    /\ observe = FALSE
    /\ faultsLeft = 0
    /\ runsLeft = 0

\* The tracker of some run is constructed (runId) and run() has loaded the
\* pending districts.
trackerConstructed ==
    /\ runPc = "idle"
    /\ \E rid \in 1..MaxRuns : runId' = rid
    /\ loaded' = getPendingDistricts(districts)
    /\ runPc' = "unprocessed"
    /\ UNCHANGED <<storeVars, unprocessedIds, toProcess, batchStart, hpc, itemVars,
                   threw, envVars, faultsLeft, histVars>>
    /\ UNCHANGED libVars

\* completeDistrict / failDistrict of this or an earlier run added a log.
districtLogAdded ==
    /\ runPc = "idle"
    /\ Cardinality(district_logs) < MaxLogs
    /\ \E id \in DOMAIN districts, rid \in 1..MaxRuns, st \in {"success", "failed"} :
          district_logs' = district_logs \cup {DistrictLog(id, rid, st)}
    /\ UNCHANGED <<districts, districtContacts, scrape_progress, runPc, localVars,
                   hpc, itemVars, threw, envVars, faultsLeft, histVars>>
    /\ UNCHANGED libVars

NextUnprocessed == districtLogAdded \/ trackerConstructed \/ resumeFilter

SpecUnprocessed == InitUnprocessed /\ [][NextUnprocessed]_vars

\* ------------------------------------------------------------- RateLimiter
\* The orchestrator at rest: the utility classes are exercised on their own.
InitIdle ==
    /\ InitStore
    /\ InitProcess
    /\ population = 0
    /\ concurrency = 1
    /\ observe = FALSE
    /\ faultsLeft = 0
    /\ runsLeft = 0

orchestratorVars ==
    <<storeVars, runPc, localVars, hpc, itemVars, threw, envVars, faultsLeft, histVars>>

\* Date.now() advances.
tick ==
    /\ now < MaxTime
    /\ now' = now + 1
    /\ UNCHANGED <<orchestratorVars, exported, verifierVars, limiterVars, retryVars, breakerVars>>

\* The url arguments: none, one `new URL` rejects, one that parses with an
\* empty hostname, and two with hostnames.
Urls == {"", "not a url", "file:///tmp/x", "https://a.org/", "https://b.org/x"}

\* new URL(url) does not throw.
Parses(url) == url \in {"file:///tmp/x", "https://a.org/", "https://b.org/x"}

\* new URL(url).hostname
hostname(url) ==
    IF url = "https://a.org/" THEN "a.org"
    ELSE IF url = "https://b.org/x" THEN "b.org"
    ELSE ""

\* The local `domain` of waitForToken: null ("" here, equally falsy) unless the
\* url is given and parses.
domainOf(url) == IF url # "" /\ Parses(url) THEN hostname(url) ELSE ""

\* `if (!this.domainBuckets.has(domain)) this.domainBuckets.set(domain, ...)`,
\* done for every url that parses, the empty hostname included.
withBucket(buckets, url) ==
    IF url # "" /\ Parses(url) /\ hostname(url) \notin DOMAIN buckets
    THEN [h \in DOMAIN buckets \cup {hostname(url)} |->
            IF h \in DOMAIN buckets THEN buckets[h]
            ELSE [tokens |-> capacity, lastRefill |-> now]]
    ELSE buckets

\* Mutant of refillTokens: the sum is not capped at maxTokens.
refillTokensUncapped(tok, last) == tok + (now - last) * refillRate

\* refill / refillDomain: Math.min(maxTokens, tokens + timePassed * refillRate).
refillTokens(tok, last) == Min(capacity, tok + (now - last) * refillRate)

\* Math.ceil((1 - tokens) / refillRate * 1000), in ticks.
waitTime(tok) == CeilDiv(TokenUnits - tok, refillRate)

\* Mutant of hasToken: a token is taken whatever the bucket holds.
hasTokenAlways(tok) == TRUE

\* The negation of the loop condition `tokens < 1`.
hasToken(tok) == tok >= TokenUnits

\* How early, by Date.now(), the setTimeout callback of delay(ms) may run: the
\* timer runs on the event loop's own clock.
timerSlack == 1

\* The timer of caller c may fire.
timerDue(c) == now + timerSlack >= wakeAt[c]

\* Lines 325-334: refill(), wait while tokens < 1, then tokens -= 1 and return.
globalPhase(c) ==
    LET t == refillTokens(tokens, lastRefill) IN
    /\ lastRefill' = now
    /\ IF hasToken(t)
       THEN /\ tokens' = t - TokenUnits
            /\ globalTaken' = [globalTaken EXCEPT ![c] = @ + 1]
            /\ wpc' = [wpc EXCEPT ![c] = "returned"]
            /\ doneAt' = [doneAt EXCEPT ![c] = now]
            /\ UNCHANGED wakeAt
       ELSE /\ tokens' = t
            /\ wpc' = [wpc EXCEPT ![c] = "globalWait"]
            /\ wakeAt' = [wakeAt EXCEPT ![c] = now + waitTime(t)]
            /\ UNCHANGED <<globalTaken, doneAt>>

\* Mutant of domainPhase: the domain bucket is passed over.
domainPhaseSkipped(c, buckets, d) ==
    /\ domainBuckets' = buckets
    /\ UNCHANGED domainTaken
    /\ globalPhase(c)

\* Mutant of domainPhase: the domain token is taken only when the global
\* bucket can be passed at once, otherwise it is left in the domain bucket.
domainPhaseRefunding(c, buckets, d) ==
    LET t == refillTokens(buckets[d].tokens, buckets[d].lastRefill)
        g == hasToken(refillTokens(tokens, lastRefill)) IN
    IF hasToken(t)
    THEN /\ domainBuckets' = [buckets EXCEPT ![d] =
                [tokens |-> IF g THEN t - TokenUnits ELSE t, lastRefill |-> now]]
         /\ domainTaken' = [domainTaken EXCEPT ![c] = IF g THEN @ + 1 ELSE @]
         /\ globalPhase(c)
    ELSE /\ domainBuckets' = [buckets EXCEPT ![d] = [tokens |-> t, lastRefill |-> now]]
         /\ wpc' = [wpc EXCEPT ![c] = "domainWait"]
         /\ wakeAt' = [wakeAt EXCEPT ![c] = now + waitTime(t)]
         /\ UNCHANGED <<tokens, lastRefill, domainTaken, globalTaken, doneAt>>

\* Lines 310-322: refillDomain(domain), wait while bucket.tokens < 1, then
\* bucket.tokens -= 1 and on to the global bucket.
domainPhase(c, buckets, d) ==
    LET t == refillTokens(buckets[d].tokens, buckets[d].lastRefill) IN
    IF hasToken(t)
    THEN /\ domainBuckets' = [buckets EXCEPT ![d] = [tokens |-> t - TokenUnits,
                                                     lastRefill |-> now]]
         /\ domainTaken' = [domainTaken EXCEPT ![c] = @ + 1]
         /\ globalPhase(c)
    ELSE /\ domainBuckets' = [buckets EXCEPT ![d] = [tokens |-> t, lastRefill |-> now]]
         /\ wpc' = [wpc EXCEPT ![c] = "domainWait"]
         /\ wakeAt' = [wakeAt EXCEPT ![c] = now + waitTime(t)]
         /\ UNCHANGED <<tokens, lastRefill, domainTaken, globalTaken, doneAt>>

\* waitForToken(url) is called: everything up to its first await.  The callers
\* are numbered in the order of their calls.
RateLimiter_waitForToken(c) ==
    /\ wpc[c] = "idle"
    /\ c = nCalls + 1
    /\ \E url \in Urls :
        /\ wurl' = [wurl EXCEPT ![c] = url]
        /\ IF domainOf(url) # ""
           THEN domainPhase(c, withBucket(domainBuckets, url), domainOf(url))
           ELSE /\ domainBuckets' = withBucket(domainBuckets, url)
                /\ UNCHANGED domainTaken
                /\ globalPhase(c)
    /\ nCalls' = nCalls + 1
    /\ callNo' = [callNo EXCEPT ![c] = nCalls + 1]
    /\ UNCHANGED detached
    /\ UNCHANGED <<now, orchestratorVars, exported, verifierVars, retryVars, breakerVars>>

\* The timer of `await this.delay(...)` in the domain loop fires (line 317):
\* refillDomain and the loop test again.  refillDomain looks the domain up in
\* the map (lines 272-275) while the loop tests the object `bucket` refers
\* to: after reset() these differ, refillDomain refills the bucket a later
\* call has put in the map, or returns at once, and the loop tests an
\* object nothing refills.
domainDelayElapsed(c) ==
    /\ wpc[c] = "domainWait"
    /\ timerDue(c)
    /\ IF detached[c] = -1
       THEN /\ domainPhase(c, domainBuckets, domainOf(wurl[c]))
            /\ UNCHANGED detached
       ELSE LET d == domainOf(wurl[c])
                buckets == IF d \in DOMAIN domainBuckets
                           THEN [domainBuckets EXCEPT ![d] =
                                   [tokens |-> refillTokens(@.tokens, @.lastRefill),
                                    lastRefill |-> now]]
                           ELSE domainBuckets
            IN  /\ domainBuckets' = buckets
                /\ IF hasToken(detached[c])
                   THEN /\ detached' = [detached EXCEPT ![c] = -1]
                        /\ domainTaken' = [domainTaken EXCEPT ![c] = @ + 1]
                        /\ globalPhase(c)
                   ELSE /\ wakeAt' = [wakeAt EXCEPT ![c] = now + waitTime(detached[c])]
                        /\ UNCHANGED <<tokens, lastRefill, wpc, detached, domainTaken,
                                       globalTaken, doneAt>>
    /\ UNCHANGED <<wurl, nCalls, callNo>>
    /\ UNCHANGED <<now, orchestratorVars, exported, verifierVars, retryVars, breakerVars>>

\* The timer of `await this.delay(...)` in the global loop fires (line 330).
globalDelayElapsed(c) ==
    /\ wpc[c] = "globalWait"
    /\ timerDue(c)
    /\ globalPhase(c)
    /\ UNCHANGED <<domainBuckets, domainTaken, wurl, nCalls, callNo, detached>>
    /\ UNCHANGED <<now, orchestratorVars, exported, verifierVars, retryVars, breakerVars>>

InitRateLimiter == InitIdle /\ InitLib

NextRateLimiter ==
    \/ tick
    \/ \E c \in Callers : RateLimiter_waitForToken(c)
    \/ \E c \in Callers : domainDelayElapsed(c)
    \/ \E c \in Callers : globalDelayElapsed(c)

SpecRateLimiter == InitRateLimiter /\ [][NextRateLimiter]_vars

\* --------------------------------------------------------------- withRetry
\* What an invocation of fn can throw: an Error whose message names a timeout,
\* two Error subclasses, and a value that is no Error.
FnErrors == {"timeout", "HttpError", "ValidationError", "a string"}

\* The options withRetry is called with, after the merge with DEFAULT_OPTIONS.
RetryOptionSets ==
    [maxRetries : 0..MaxMaxRetries,
     initialDelay : {1, 3},
     maxDelay : {2, 5},
     backoffFactor : {<<1, 1>>, <<2, 1>>, <<3, 2>>, <<1, 2>>},
     retryableErrors : {{}, {"HttpError"}}]

\* Math.pow(b, e) for a natural e.
RECURSIVE Pow(_, _)
Pow(b, e) == IF e = 0 THEN 1 ELSE b * Pow(b, e - 1)

\* Mutant of delayFor: the exponent is the number of the next attempt.
delayForNext(o, a) ==
    LET n == o.initialDelay * Pow(o.backoffFactor[1], a + 1)
        d == Pow(o.backoffFactor[2], a + 1)
    IN  IF n <= o.maxDelay * d THEN <<n, d>> ELSE <<o.maxDelay, 1>>

\* Lines 53-56: Math.min(initialDelay * Math.pow(backoffFactor, attempt), maxDelay),
\* as the fraction <<numerator, denominator>>.
delayFor(o, a) ==
    LET n == o.initialDelay * Pow(o.backoffFactor[1], a)
        d == Pow(o.backoffFactor[2], a)
    IN  IF n <= o.maxDelay * d THEN <<n, d>> ELSE <<o.maxDelay, 1>>

\* Mutant of rethrowsNow: no error is treated as fatal.
rethrowsNowNever(error, o) == FALSE

\* Line 38: if (!isRetryableError(error, opts.retryableErrors)) throw error.
rethrowsNow(error, o) == ~isRetryableError(error, o.retryableErrors)

\* Mutant of retriesExhausted: the last permitted attempt is given up one early.
retriesExhaustedEarly(a, o) == a + 1 >= o.maxRetries

\* Line 43: if (attempt === opts.maxRetries).
retriesExhausted(a, o) == a = o.maxRetries

\* withRetry(fn, options) is called; fn fails `k` times before it succeeds.
withRetry ==
    /\ rpc = "idle"
    /\ \E o \in RetryOptionSets, k \in 0..MaxFails :
        /\ opts' = o
        /\ fails' = k
    /\ rattempt' = 0
    /\ rpc' = "invoke"
    /\ UNCHANGED <<lastError, invocations, delays, onRetryCalls, thrown>>
    /\ UNCHANGED <<now, orchestratorVars, exported, verifierVars, limiterVars, breakerVars>>

\* The catch block (lines 34-65) for the error fn rejected with: rethrown at
\* once when it is not retryable or when the retries are used up, otherwise
\* onRetry is called and the backoff delay is awaited.
catchError(error) ==
    /\ lastError' = error
    /\ IF rethrowsNow(error, opts)
       THEN /\ thrown' = error
            /\ rpc' = "rejected"
            /\ UNCHANGED <<delays, onRetryCalls>>
       ELSE IF retriesExhausted(rattempt, opts)
       THEN /\ thrown' = error
            /\ rpc' = "rejected"
            /\ UNCHANGED <<delays, onRetryCalls>>
       ELSE /\ delays' = Append(delays, delayFor(opts, rattempt))
            /\ onRetryCalls' = Append(onRetryCalls, rattempt + 1)
            /\ rpc' = "sleep"
            /\ UNCHANGED thrown

\* Lines 31-69: one pass of the loop: `return await fn()` and the catch block
\* up to `await sleep(delay)`.  With maxRetries >= 0 the loop is left by a
\* return or a throw only, never by its condition (line 72 is not reached).
invokeFn ==
    /\ rpc = "invoke"
    /\ rattempt <= opts.maxRetries
    /\ IF Len(invocations) >= fails
       THEN /\ invocations' = Append(invocations, "ok")
            /\ rpc' = "returned"
            /\ UNCHANGED <<lastError, delays, onRetryCalls, thrown>>
       ELSE \E error \in FnErrors :
            /\ invocations' = Append(invocations, error)
            /\ catchError(error)
    /\ UNCHANGED <<opts, fails, rattempt>>
    /\ UNCHANGED <<now, orchestratorVars, exported, verifierVars, limiterVars, breakerVars>>

\* sleep(delay) resolves; attempt++.
sleepElapsed ==
    /\ rpc = "sleep"
    /\ rattempt' = rattempt + 1
    /\ rpc' = "invoke"
    /\ UNCHANGED <<opts, fails, lastError, invocations, delays, onRetryCalls, thrown>>
    /\ UNCHANGED <<now, orchestratorVars, exported, verifierVars, limiterVars, breakerVars>>

InitWithRetry == InitIdle /\ InitLib

NextWithRetry == withRetry \/ invokeFn \/ sleepElapsed

SpecWithRetry == InitWithRetry /\ [][NextWithRetry]_vars

\* ---------------------------------------------------------- CircuitBreaker
\* Mutant of timeoutElapsed: the boundary instant counts as elapsed.
timeoutElapsedAtBoundary == now - lastFailureTime >= timeout

\* Line 187: Date.now() - this.lastFailureTime > this.timeout.
timeoutElapsed == now - lastFailureTime > timeout

\* Mutant of reachedThreshold: one failure more is needed.
reachedThresholdLate(f) == f > threshold

\* Line 213: this.failures >= this.threshold.
reachedThreshold(f) == f >= threshold

\* Mutant of stateAfterFailure: the breaker opens only from the closed state.
stateAfterFailureFromClosed(f) ==
    IF state = "closed" /\ reachedThreshold(f) THEN "open"
    ELSE IF state = "half-open" THEN "closed"
    ELSE state

\* onFailure (lines 209-220): the state after the failure that made the count f.
stateAfterFailure(f) == IF reachedThreshold(f) THEN "open" ELSE state

\* execute(fn) is called (lines 185-195): an open breaker turns half-open once
\* the timeout has elapsed and rejects the call otherwise; in every other case
\* fn is invoked.
execute(c) ==
    /\ bpc[c] # "running"
    /\ IF state = "open" /\ ~timeoutElapsed
       THEN /\ bpc' = [bpc EXCEPT ![c] = "rejected"]
            /\ UNCHANGED <<state, probeOf>>
       ELSE /\ state' = IF state = "open" THEN "half-open" ELSE state
            /\ bpc' = [bpc EXCEPT ![c] = "running"]
            /\ probeOf' = [probeOf EXCEPT ![c] = state']
    /\ UNCHANGED <<threshold, timeout, failures, lastFailureTime, streak>>
    /\ UNCHANGED <<now, orchestratorVars, exported, verifierVars, limiterVars, retryVars>>

\* fn() resolves (lines 195-197): onSuccess (204-207).
operationSucceeds(c) ==
    /\ bpc[c] = "running"
    /\ failures' = 0
    /\ state' = "closed"
    /\ streak' = 0
    /\ bpc' = [bpc EXCEPT ![c] = "returned"]
    /\ UNCHANGED <<threshold, timeout, lastFailureTime, probeOf>>
    /\ UNCHANGED <<now, orchestratorVars, exported, verifierVars, limiterVars, retryVars>>

\* fn() rejects (lines 198-201): onFailure (209-220), the error is rethrown.
operationFails(c) ==
    /\ bpc[c] = "running"
    /\ failures' = failures + 1
    /\ lastFailureTime' = now
    /\ state' = stateAfterFailure(failures + 1)
    /\ streak' = streak + 1
    /\ bpc' = [bpc EXCEPT ![c] = "threw"]
    /\ UNCHANGED <<threshold, timeout, probeOf>>
    /\ UNCHANGED <<now, orchestratorVars, exported, verifierVars, limiterVars, retryVars>>

\* new CircuitBreaker(threshold, timeout)
InitCircuitBreaker ==
    /\ InitIdle
    /\ now = 0
    /\ InitLimiter
    /\ InitRetry
    /\ NewBreaker
    /\ threshold \in 1..MaxThreshold
    /\ timeout \in 0..MaxTimeout
    /\ exported = <<>>
    /\ InitVerifier

NextCircuitBreaker ==
    \/ tick
    \/ \E c \in Clients : execute(c)
    \/ \E c \in Clients : operationSucceeds(c)
    \/ \E c \in Clients : operationFails(c)

SpecCircuitBreaker == InitCircuitBreaker /\ [][NextCircuitBreaker]_vars

\* ================================================================== claims
\* The progress document of run r.
Stats(r) == scrape_progress[r]

\* The run of the current tracker has been marked completed.
RunCompleted == progressDoc.status = "completed"

\* C1: in every state after initializeRun(N), under any interleaving of the
\* startDistrict, completeDistrict and failDistrict updates of concurrent
\* handlers, pending + processing + completed + failed = total, and total = N.
C1_StatsSumToTotal ==
    /\ \A r \in DOMAIN scrape_progress :
          Stats(r).pending + Stats(r).processing + Stats(r).completed + Stats(r).failed
              = Stats(r).total
    /\ DocExists(progressDoc) => progressDoc.total = Len(loaded)

\* C1 witness: two batches in, one district completed, one failed, one in flight.
C1_Witness ==
    /\ progressDoc.completed >= 1
    /\ progressDoc.failed >= 1
    /\ progressDoc.processing >= 1
    /\ progressDoc.total = 3

\* C2: whenever the run is marked completed, completed + failed = total and
\* pending = 0 and processing = 0, also when a Progress Store call made for an
\* item rejected.
C2_Conservation ==
    RunCompleted =>
        /\ progressDoc.completed + progressDoc.failed = progressDoc.total
        /\ progressDoc.pending = 0
        /\ progressDoc.processing = 0

\* The status changes the data model allows for one district.
ForwardStep(a, b) ==
    \/ a = b
    \/ a = "absent" /\ b = "pending"
    \/ a = "pending" /\ b = "processing"
    \/ a = "processing" /\ b \in {"completed", "failed"}

\* C3: a district's global status only moves forward, pending -> processing ->
\* completed | failed: it never leaves completed or failed, never becomes
\* completed or failed without having been processing, never returns to pending.
C3_ForwardOnly == [][\A i \in Ids : ForwardStep(districts[i], districts'[i])]_vars

\* C4: across runs, also after a crash or interrupt, the acquisition stage
\* (scraper.scrapeDistrict) is never invoked for a district whose global status
\* was completed or failed when the run started.
C4_NoReprocessing ==
    \A i \in scraped : startStatus[i] \notin {"completed", "failed"}

\* C4 witness: a restarted run that began with a completed and a failed
\* district has scraped another district and has completed.
C4_Witness ==
    /\ RunCompleted
    /\ scraped # {}
    /\ \E i, j \in Ids : startStatus[i] = "completed" /\ startStatus[j] = "failed"

\* C5: a restarted run feeds to the scheduler every district the Progress Store
\* reports as unprocessed (status pending or processing, no success record of
\* the current run), so that each of them has become completed or failed when
\* the run completes.
C5_UnprocessedAllProcessed ==
    RunCompleted =>
        \A i \in Range(unprocessedIds) :
            /\ i \in Range(toProcess)
            /\ districts[i] \in {"completed", "failed"}

\* The ids of 'districts' whose status is pending or processing.
OpenIds == {i \in DOMAIN districts : districts[i] \in {"pending", "processing"}}

\* The ids with a success record tagged with run id rid.
SucceededIn(rid) ==
    {i \in DOMAIN districts : DistrictLog(i, rid, "success") \in district_logs}

\* C6: getUnprocessedDistricts returns exactly the ids whose global status is
\* pending or processing, minus the ids with a success record of the tracker's
\* run id (each id once); with districts 1-3 completed and 4-5 pending the
\* result is exactly {4, 5}.
C6_UnprocessedExact ==
    runPc = "loop" =>
        /\ Range(unprocessedIds) = OpenIds \ SucceededIn(runId)
        /\ Len(unprocessedIds) = Cardinality(Range(unprocessedIds))
        /\ (districts = ResumeScenario /\ SucceededIn(runId) = {})
               => Range(unprocessedIds) = {4, 5}

\* C6 witness: the call has returned a non-empty result that leaves out a
\* pending district because of its success record of the current run, while a
\* completed district is left out as well.
C6_Witness ==
    /\ runPc = "loop"
    /\ unprocessedIds # <<>>
    /\ \E i \in OpenIds : i \in SucceededIn(runId)
    /\ \E j \in DOMAIN districts : districts[j] = "completed"

\* The 5-district scenario is reached (reachable, not a claim).
C6_ScenarioReached ==
    /\ runPc = "loop"
    /\ districts = ResumeScenario
    /\ SucceededIn(runId) = {}
    /\ unprocessedIds # <<>>

\* C7: at every moment at most C = config.scraper.maxConcurrent handlers
\* (processDistrict) are running, within a batch and across batch boundaries.
C7_AtMostCRunning == activeCount <= concurrency

\* C7 witness: C handlers are running and the limiter holds another one back.
C7_Witness ==
    /\ activeCount = concurrency
    /\ \E i \in Ids : hpc[i] = "queued"

\* C8: processBatch returns only after the handler of every district of the
\* batch has settled; an exception raised while handling one district does not
\* keep a sibling's handler from being started and settling.
C8_BatchReturnsWhenAllSettled ==
    /\ runPc # "batch" => \A i \in Ids : hpc[i] \in {"idle", "settled"}
    /\ runPc \in {"progress", "delay"} => \A i \in currentBatch : hpc[i] = "settled"

\* C8 witness: the batch has returned; one of its districts raised an exception
\* and a sibling was processed to completion.
C8_Witness ==
    /\ runPc = "progress"
    /\ \E i, j \in currentBatch :
          /\ i \in caught
          /\ j \notin caught
          /\ districts[j] = "completed"

\* Position of district i in districtsToProcess (0 when it is not in it).
PosOf(i) ==
    IF i \in Range(toProcess) THEN CHOOSE k \in 1..Len(toProcess) : toProcess[k] = i ELSE 0

\* 0-based number of the batch district i belongs to.
BatchOf(i) == (PosOf(i) - 1) \div batchSize

\* C9: batches run strictly one after the other: no district of a later batch
\* is handed to the limiter or started before every district of the earlier
\* batches has settled (the order inside a batch is free).
C9_BatchesSequential ==
    \A i, j \in Range(toProcess) :
        (BatchOf(i) < BatchOf(j) /\ hpc[j] # "idle") => hpc[i] = "settled"

\* C9 witness: a district of the second batch is running after the districts
\* of the first batch were processed to completed or failed.
C9_Witness ==
    \E i, j \in Range(toProcess) :
        /\ BatchOf(i) < BatchOf(j)
        /\ hpc[j] \in Running
        /\ districts[i] \in {"completed", "failed"}

\* Inside a batch either order of settling occurs (reachable, not a claim).
C9_OrderFreeA == hpc[1] = "settled" /\ hpc[2] \in Running
C9_OrderFreeB == hpc[2] = "settled" /\ hpc[1] \in Running

\* ceil(n / b)
Ceil(n, b) == (n + b - 1) \div b

\* Every district's pipeline succeeded: no handler entered its catch block.
AllSucceeded == caught = {}

\* The inter-batch delay is only entered while a later batch remains.
DelayOnlyBetweenBatches == runPc = "delay" => batchStart + batchSize < Len(toProcess)

\* C10 as stated: with n districts, batch size B and every pipeline succeeding,
\* the run ends with completed = n, failed = 0, ceil(n/B) batches and
\* ceil(n/B) - 1 inter-batch delays, none of them after the last batch.
C10_AsStated ==
    /\ DelayOnlyBetweenBatches
    /\ (RunCompleted /\ AllSucceeded) =>
          /\ progressDoc.completed = Len(loaded)
          /\ progressDoc.failed = 0
          /\ nBatches = Ceil(Len(loaded), batchSize)
          /\ nDelays = Ceil(Len(loaded), batchSize) - 1

\* C10 amended: the same, with no delay at all when there is no district
\* (n = 0: no batch, no delay).
C10_BatchesAndDelays ==
    /\ DelayOnlyBetweenBatches
    /\ (RunCompleted /\ AllSucceeded) =>
          /\ progressDoc.completed = Len(loaded)
          /\ progressDoc.failed = 0
          /\ nBatches = Ceil(Len(loaded), batchSize)
          /\ nDelays = IF Len(loaded) = 0 THEN 0 ELSE Ceil(Len(loaded), batchSize) - 1

\* C10 witness: a run over two batches has completed with every district
\* completed and one delay.
C10_Witness ==
    /\ RunCompleted
    /\ AllSucceeded
    /\ nBatches = 2
    /\ nDelays = 1
    /\ progressDoc.completed = Len(loaded)

\* ------------------------------------------------------------ RateLimiter
\* The callers whose waitForToken call has returned.
Returned == {c \in Callers : wpc[c] = "returned"}

\* The call of c was suspended at a delay point at least once.
Waited(c) == wakeAt[c] > 0

\* C11: for the global bucket and every per-domain bucket, under any
\* interleaving of waitForToken callers suspended and resumed at their delay
\* points, the token count never exceeds maxTokens and is never negative.
C11_TokensWithinBounds ==
    /\ tokens >= 0
    /\ tokens <= capacity
    /\ \A h \in DOMAIN domainBuckets :
          /\ domainBuckets[h].tokens >= 0
          /\ domainBuckets[h].tokens <= capacity

\* C11 witness: the global bucket and a domain bucket are empty after a caller
\* that was suspended took the token that had been refilled.
C11_Witness ==
    /\ tokens = 0
    /\ "a.org" \in DOMAIN domainBuckets
    /\ domainBuckets["a.org"].tokens = 0
    /\ \E c \in Returned : Waited(c)

\* C12: starting from a full bucket of capacity c, the first c calls return
\* without waiting; once c calls have returned at the same instant, any further
\* call returns no earlier than 1/refillRate after that instant.
C12_BlocksAfterBurst ==
    /\ \A c \in Callers :
          callNo[c] \in 1..maxTokens => (~Waited(c) /\ wpc[c] = "returned")
    /\ \A S \in SUBSET Returned : \A t0 \in 0..MaxTime :
          (Cardinality(S) = maxTokens /\ \A c \in S : doneAt[c] = t0) =>
              \A d \in Returned \ S :
                  doneAt[d] >= t0 => (doneAt[d] - t0) * refillRate >= TokenUnits

\* C12 witness: after maxTokens calls that returned at the same instant a
\* further call was suspended and returned exactly 1/refillRate later.
C12_Witness ==
    \E S \in SUBSET Returned : \E d \in Returned \ S :
        /\ Cardinality(S) = maxTokens
        /\ \A c \in S : doneAt[c] = doneAt[CHOOSE x \in S : TRUE] /\ ~Waited(c)
        /\ Waited(d)
        /\ (doneAt[d] - doneAt[CHOOSE x \in S : TRUE]) * refillRate = TokenUnits

\* The url is a resource key: it parses and has a hostname.
ValidKey(url) == url # "" /\ Parses(url) /\ hostname(url) # ""

\* No key, or a url that does not parse.
NoKey(url) == url = "" \/ ~Parses(url)

\* C13: a call with a valid resource key returns only after it deducted exactly
\* one token from that resource's bucket and exactly one from the global
\* bucket, the resource bucket first; a call with no key or an unparsable url
\* deducts exactly one token from the global bucket and touches no resource
\* bucket.
C13_BothBuckets ==
    /\ [](\A c \in Callers :
            /\ (wpc[c] = "returned" /\ ValidKey(wurl[c])) =>
                   domainTaken[c] = 1 /\ globalTaken[c] = 1
            /\ (wpc[c] # "idle" /\ ValidKey(wurl[c]) /\ globalTaken[c] > 0) =>
                   domainTaken[c] = 1
            /\ (wpc[c] # "idle" /\ ValidKey(wurl[c]) /\ domainTaken[c] = 0) =>
                   wpc[c] = "domainWait"
            /\ (wpc[c] = "returned" /\ NoKey(wurl[c])) =>
                   domainTaken[c] = 0 /\ globalTaken[c] = 1)
    /\ [][\A c \in Callers :
            (wpc'[c] # wpc[c] /\ NoKey(wurl'[c])) => domainBuckets' = domainBuckets]_vars

\* C13 witness: a call with a hostname has returned after being suspended at
\* its domain bucket, and a call with an unparsable url and a call without url
\* have returned; no bucket exists but that of the hostname.
C13_Witness ==
    \E a, b, c \in Returned :
        /\ wurl[a] = "https://a.org/" /\ domainTaken[a] = 1 /\ globalTaken[a] = 1
        /\ wurl[b] = "not a url" /\ domainTaken[b] = 0 /\ globalTaken[b] = 1
        /\ wurl[c] = "" /\ globalTaken[c] = 1
        /\ DOMAIN domainBuckets = {"a.org"}

\* --------------------------------------------------------------- withRetry
\* The withRetry call has settled.
RetrySettled == rpc \in {"returned", "rejected"}

\* The errors fn has thrown so far, in order.
ErrorsSeen == SelectSeq(invocations, LAMBDA x : x # "ok")

\* Every error fn has thrown is one the classifier deems retryable.
AllRetryable ==
    \A j \in 1..Len(ErrorsSeen) : isRetryableError(ErrorsSeen[j], opts.retryableErrors)

\* C14: for an operation that fails with retryable errors exactly k times and
\* then succeeds, withRetry invokes it exactly k+1 times and returns the
\* success value when maxRetries >= k; when maxRetries < k it invokes it exactly
\* maxRetries+1 times and rejects with the last error observed.
C14_RetryExactness ==
    (RetrySettled /\ AllRetryable) =>
        IF opts.maxRetries >= fails
        THEN /\ rpc = "returned"
             /\ Len(invocations) = fails + 1
             /\ invocations[Len(invocations)] = "ok"
        ELSE /\ rpc = "rejected"
             /\ Len(invocations) = opts.maxRetries + 1
             /\ thrown = invocations[Len(invocations)]
             /\ thrown # "ok"

\* C14 witness: the operation failed twice with retryable errors and the call
\* returned from the third invocation.
C14_Witness ==
    /\ rpc = "returned"
    /\ fails = 2
    /\ Len(invocations) = 3
    /\ AllRetryable

\* The rejecting case of C14 is reached (reachable, not a claim).
C14_RejectedReached ==
    /\ rpc = "rejected"
    /\ AllRetryable
    /\ opts.maxRetries = 1
    /\ Len(invocations) = 2
    /\ invocations[1] # invocations[2]
    /\ thrown = invocations[2]

\* C15: when an invocation raises an error the classifier deems fatal,
\* withRetry rethrows that error at once: the operation is not invoked again,
\* no delay is awaited and onRetry is not called for it, whatever number of
\* retries remains.
C15_FatalRethrown ==
    \A j \in 1..Len(invocations) :
        (invocations[j] # "ok" /\ ~isRetryableError(invocations[j], opts.retryableErrors)) =>
            /\ j = Len(invocations)
            /\ rpc = "rejected"
            /\ thrown = invocations[j]
            /\ Len(delays) = j - 1
            /\ Len(onRetryCalls) = j - 1

\* C15 witness: a fatal error was rethrown from the second invocation with a
\* retry still left.
C15_Witness ==
    /\ rpc = "rejected"
    /\ Len(invocations) = 2
    /\ ~isRetryableError(invocations[2], opts.retryableErrors)
    /\ opts.maxRetries = 2
    /\ fails = 3

\* min(maxDelay, initialDelay * backoffFactor^a) equals the fraction f.
IsBackoffDelay(f, o, a) ==
    LET n == o.initialDelay * Pow(o.backoffFactor[1], a)
        d == Pow(o.backoffFactor[2], a)
    IN  IF n <= o.maxDelay * d
        THEN f[1] * d = f[2] * n
        ELSE f[1] = f[2] * o.maxDelay

\* Fraction f is at most fraction g.
FracLeq(f, g) == f[1] * g[2] <= g[1] * f[2]

\* C16: the delay awaited after the failed attempt with 0-based index a
\* (a < maxRetries) is min(maxDelay, initialDelay * backoffFactor^a); with
\* backoffFactor >= 1 the delays do not decrease; none exceeds maxDelay; no
\* delay is awaited after the last permitted attempt has failed.
C16_BackoffDelays ==
    /\ \A j \in 1..Len(delays) :
          /\ IsBackoffDelay(delays[j], opts, j - 1)
          /\ FracLeq(delays[j], <<opts.maxDelay, 1>>)
          /\ j - 1 < opts.maxRetries
    /\ opts.backoffFactor[1] >= opts.backoffFactor[2] =>
          \A j \in 1..(Len(delays) - 1) : FracLeq(delays[j], delays[j + 1])
    /\ Len(delays) = Len(onRetryCalls)
    /\ Len(delays) = IF rpc = "sleep" THEN Len(invocations)
                     ELSE IF RetrySettled THEN Len(invocations) - 1
                     ELSE Len(invocations)
    /\ Len(delays) <= opts.maxRetries

\* C16 witness: the call was rejected after all its attempts failed; the delays
\* grew by the factor 3/2 and then met maxDelay.
C16_Witness ==
    /\ rpc = "rejected"
    /\ opts.maxRetries = MaxMaxRetries
    /\ opts.backoffFactor = <<3, 2>>
    /\ opts.initialDelay = 1
    /\ opts.maxDelay = 2
    /\ Len(delays) = opts.maxRetries
    /\ Len(invocations) = opts.maxRetries + 1
    /\ delays[1] = <<1, 1>>
    /\ delays[2] = <<3, 2>>

\* ---------------------------------------------------------- CircuitBreaker
\* The operation of caller c settles with success / with failure in this step.
Succeeds(c) == bpc[c] = "running" /\ bpc'[c] = "returned"
Fails(c) == bpc[c] = "running" /\ bpc'[c] = "threw"

\* C17: a closed breaker opens exactly when threshold failures have occurred
\* with no success in between: a success while closed resets failureCount to 0,
\* fewer than threshold consecutive failures leave it closed, the threshold-th
\* consecutive failure opens it and records lastFailureAt.
C17_OpensAtThreshold ==
    /\ [](state = "closed" => (failures = streak /\ streak < threshold))
    /\ [][state = "closed" =>
            /\ \A c \in Clients :
                  /\ Succeeds(c) => (failures' = 0 /\ state' = "closed")
                  /\ Fails(c) =>
                        /\ failures' = failures + 1
                        /\ IF streak' < threshold
                           THEN state' = "closed"
                           ELSE state' = "open" /\ lastFailureTime' = now
            /\ state' # "closed" =>
                  /\ state' = "open"
                  /\ streak' = threshold
                  /\ \E c \in Clients : Fails(c)]_vars

\* C17 witness: with threshold 2 the breaker is open after a success followed
\* by two failures.
C17_Witness ==
    /\ threshold = 2
    /\ state = "open"
    /\ streak = 2
    /\ failures = 2
    /\ \E c \in Clients : bpc[c] = "returned"

\* C18: while the breaker is open and no more than timeout has elapsed since
\* lastFailureAt, every execute call is rejected without invoking the wrapped
\* operation and leaves state, failureCount and lastFailureAt unchanged.
C18_OpenRejects ==
    [][\A c \in Clients :
          (bpc[c] # "running" /\ bpc'[c] # bpc[c]
              /\ state = "open" /\ now - lastFailureTime <= timeout) =>
              /\ bpc'[c] = "rejected"
              /\ UNCHANGED <<state, failures, lastFailureTime>>]_vars

\* C18 witness: a call has been rejected by the open breaker exactly timeout
\* after the last failure.
C18_Witness ==
    /\ state = "open"
    /\ timeout >= 1
    /\ now - lastFailureTime = timeout
    /\ \E c \in Clients : bpc[c] = "rejected"

\* The callers whose operation was invoked by a half-open breaker and has not
\* settled.
ProbesInFlight == {c \in Clients : bpc[c] = "running" /\ probeOf[c] = "half-open"}

\* C19: after the timeout has elapsed in the open state, under any
\* interleaving of execute calls, exactly one call's operation is invoked as
\* the probe: while the breaker is half-open and the probe has not settled, no
\* other execute call invokes its operation.
C19_OneProbe == Cardinality(ProbesInFlight) <= 1

C20_ProbeSucceeded ==
    /\ state = "closed"
    /\ failures = 0
    /\ \E c \in Clients : bpc[c] = "returned" /\ probeOf[c] = "half-open"

\* A failed probe leaves the breaker closed when the operation of another call
\* succeeded while the probe was in flight (reachable, not a claim).
C20_ClosedMeanwhile ==
    /\ threshold = 2
    /\ state = "closed"
    /\ failures = 1
    /\ \E c \in Clients : bpc[c] = "threw" /\ probeOf[c] = "half-open"

\* ---------------------------------------------------------------------------
\* CircuitBreaker: what moves an open breaker
\* ---------------------------------------------------------------------------

\* Some client's execute call is admitted in this step.
Admitted == \E c \in Clients : bpc[c] # "running" /\ bpc'[c] = "running"

\* C21: an open breaker changes state only to half-open, and only in a step
\* that admits an execute call made when more than timeout has elapsed since
\* the last failure; no other step changes the state of an open breaker.
C21_OpenLeavesOnlyByTimeout ==
    [][state = "open" /\ state' # "open"
         => state' = "half-open" /\ Admitted /\ timeoutElapsed]_vars

\* The regular way out of the open state has been taken: a probe is in flight
\* in a half-open breaker.
C21_HalfOpenReached ==
    state = "half-open" /\ \E c \in Clients : bpc[c] = "running"

\* An operation admitted while the breaker was closed has returned after the
\* breaker was opened by another one, and the breaker is closed again although
\* no time has passed since the failure that opened it.
C21_ClosedByLateSuccess ==
    /\ state = "closed"
    /\ now = lastFailureTime
    /\ streak = 0
    /\ \E c, d \in Clients :
          /\ bpc[c] = "threw"
          /\ bpc[d] = "returned"
          /\ probeOf[c] = "closed"
          /\ probeOf[d] = "closed"

\* ---------------------------------------------------------------------------
\* withRetry(() => breaker.execute(operation), options)
\* ---------------------------------------------------------------------------

\* The message of the error an open breaker rejects a call with (line 190).
BreakerOpen == "Circuit breaker is open"

\* What the operation behind the breaker rejects with.
OperationErrors == {"HttpError"}

\* The options of the call: every retry count and both kinds of retryableErrors.
BreakerRetryOptions ==
    {o \in RetryOptionSets :
        o.initialDelay = 1 /\ o.maxDelay = 2 /\ o.backoffFactor = <<2, 1>>}

\* withRetry is called with fn = () => breaker.execute(operation); the
\* operation fails `k` times before it succeeds.
withRetryExecute ==
    /\ rpc = "idle"
    /\ \E o \in BreakerRetryOptions, k \in 0..MaxFails :
        /\ opts' = o
        /\ fails' = k
    /\ rattempt' = 0
    /\ rpc' = "invoke"
    /\ UNCHANGED <<lastError, invocations, delays, onRetryCalls, thrown>>
    /\ UNCHANGED <<now, orchestratorVars, exported, verifierVars, limiterVars, breakerVars>>

\* The operation has been invoked `n` times so far.
OperationCalls == Cardinality({j \in DOMAIN invocations : invocations[j] # BreakerOpen})

\* One pass of the withRetry loop whose fn is breaker.execute(operation):
\* execute rejects with BreakerOpen while the breaker is open within the
\* timeout and otherwise awaits the operation, runs onSuccess or onFailure and
\* passes the outcome on (retryHelper.ts lines 185-220); the catch block of
\* withRetry handles what execute rejected with (lines 34-65).
invokeExecute ==
    /\ rpc = "invoke"
    /\ rattempt <= opts.maxRetries
    /\ IF state = "open" /\ ~timeoutElapsed
       THEN /\ invocations' = Append(invocations, BreakerOpen)
            /\ catchError(BreakerOpen)
            /\ UNCHANGED <<failures, lastFailureTime, state, streak>>
       ELSE IF OperationCalls >= fails
       THEN /\ invocations' = Append(invocations, "ok")
            /\ failures' = 0
            /\ state' = "closed"
            /\ streak' = 0
            /\ rpc' = "returned"
            /\ UNCHANGED <<lastError, delays, onRetryCalls, thrown, lastFailureTime>>
       ELSE \E error \in OperationErrors :
            /\ invocations' = Append(invocations, error)
            /\ failures' = failures + 1
            /\ lastFailureTime' = now
            /\ state' = stateAfterFailure(failures + 1)
            /\ streak' = streak + 1
            /\ catchError(error)
    /\ UNCHANGED <<opts, fails, rattempt, threshold, timeout, bpc, probeOf>>
    /\ UNCHANGED <<now, orchestratorVars, exported, verifierVars, limiterVars>>

InitRetryBreaker == InitCircuitBreaker

NextRetryBreaker == tick \/ withRetryExecute \/ invokeExecute \/ sleepElapsed

SpecRetryBreaker == InitRetryBreaker /\ [][NextRetryBreaker]_vars

\* The breaker rejects the call of this step without invoking the operation.
BreakerRejects ==
    /\ Len(invocations') = Len(invocations) + 1
    /\ invocations'[Len(invocations')] = BreakerOpen

\* C22: a breaker-open rejection met by withRetry spends nothing of the retry
\* budget: no onRetry call, no backoff delay, and no further attempt follows
\* from it.
C22_BreakerOpenSpendsNoRetry ==
    [][BreakerRejects
         => delays' = delays /\ onRetryCalls' = onRetryCalls /\ rpc' # "sleep"]_vars

\* withRetry is sleeping out a backoff delay after a breaker-open rejection.
C22_RetriedBreakerOpen ==
    /\ rpc = "sleep"
    /\ lastError = BreakerOpen
    /\ Len(delays) = Len(invocations)

\* Every attempt but the first went into breaker-open rejections: the call is
\* rejected with BreakerOpen although the operation was invoked once only.
C22_BudgetSpentOnRejections ==
    /\ rpc = "rejected"
    /\ thrown = BreakerOpen
    /\ OperationCalls = 1
    /\ Len(invocations) = opts.maxRetries + 1
    /\ opts.maxRetries >= 2

\* ---------------------------------------------------------------------------
\* The persisted run status
\* ---------------------------------------------------------------------------

\* The status field of the scrape_progress document of run r.
StatusOf(r) == scrape_progress[r].status

\* No handler of the current batch is still at work and no batch is left.
EveryBatchSettled ==
    /\ ~(batchStart < Len(toProcess))
    /\ \A i \in Ids : hpc[i] \in {"idle", "settled"}

\* C27: the persisted status of a run becomes running only by initializeRun,
\* becomes completed only once every batch has settled, and never changes
\* after it has become completed or failed.
C27_RunStatusMachine ==
    [][\A r \in DOMAIN scrape_progress :
          /\ (StatusOf(r)' = "running" /\ StatusOf(r) # "running")
                => runPc = "initializeRun" /\ StatusOf(r) = "none" /\ r = runId
          /\ (StatusOf(r)' = "completed" /\ StatusOf(r) # "completed")
                => StatusOf(r) = "running" /\ EveryBatchSettled
          /\ StatusOf(r) \in {"completed", "failed"}
                => StatusOf(r)' = StatusOf(r)]_vars

\* The part of C27 the code keeps: running only by initializeRun, completed
\* only from running with every batch settled, failed never left.
C27_UpToCompleted ==
    [][\A r \in DOMAIN scrape_progress :
          /\ (StatusOf(r)' = "running" /\ StatusOf(r) # "running")
                => runPc = "initializeRun" /\ StatusOf(r) = "none" /\ r = runId
          /\ (StatusOf(r)' = "completed" /\ StatusOf(r) # "completed")
                => StatusOf(r) = "running" /\ EveryBatchSettled
          /\ StatusOf(r) = "failed" => StatusOf(r)' = "failed"]_vars

\* The run was completed, exportResults raised, and failRun has overwritten
\* the status: a run that processed every item is recorded as failed.
C27_CompletedThenFailed ==
    /\ runPc \in {"cleanup", "exited"}
    /\ threw
    /\ runId # 0
    /\ StatusOf(runId) = "failed"
    /\ EveryBatchSettled
    /\ nBatches >= 1
    /\ faultsLeft = MaxFaults

\* ---------------------------------------------------------------------------
\* Exceptions while the run is initialising
\* ---------------------------------------------------------------------------

\* The catch block of run() has been entered by an exception raised before
\* initializeRun had persisted the run: by initialize(), by
\* loadOrGetDistricts() or by initializeRun() itself.
InitializingFailed ==
    /\ runPc = "catch"
    /\ runId = 0 \/ StatusOf(runId) = "none"

\* C28: an exception raised while the run is initialising aborts the run
\* before any item is processed, and the step that handles it persists the
\* run status failed.
C28_InitializingFailurePersisted ==
    [][InitializingFailed
         => /\ nBatches = 0 /\ scraped = {}
            /\ runPc' = "cleanup"
            /\ \E r \in DOMAIN scrape_progress :
                  StatusOf(r)' = "failed" /\ StatusOf(r) # "failed"]_vars

\* The part of C28 the code keeps: the run is aborted with no item processed.
C28_AbortedUnprocessed ==
    [][InitializingFailed
         => nBatches = 0 /\ scraped = {} /\ runPc' = "cleanup" /\ threw']_vars

\* initialize() raised: the run has ended, no tracker was built and no run
\* document says failed.
C28_InitializeFailedUnrecorded ==
    /\ runPc = "exited"
    /\ threw
    /\ runId = 0
    /\ \A r \in DOMAIN scrape_progress : StatusOf(r) = "none"

\* The load or initializeRun raised: the run has ended and the document of
\* the run does not exist.
C28_LoadFailedUnrecorded ==
    /\ runPc = "exited"
    /\ threw
    /\ runId # 0
    /\ StatusOf(runId) = "none"

\* ---------------------------------------------------------------------------
\* When exportResults is invoked
\* ---------------------------------------------------------------------------

\* exportResults() has raised: the catch block of run() is entered with the
\* status completed already persisted (only the export follows completeRun).
ExportRaised == runPc = "catch" /\ runId # 0 /\ StatusOf(runId) = "completed"

\* The part of C29 the code keeps: exportResults is invoked only when every
\* batch has settled and the persisted status is completed.
C29_ExportAfterCompleted ==
    runPc = "export"
        => EveryBatchSettled /\ runId # 0 /\ StatusOf(runId) = "completed"

\* C29: exportResults is invoked only after every batch has settled and the
\* status has been set to completed, hence never while the run is running,
\* and a run in which it has been invoked does not end failed.
C29_ExportOnlyInCompletedRun ==
    /\ [](runPc = "export"
            => EveryBatchSettled /\ runId # 0 /\ StatusOf(runId) = "completed")
    /\ [][ExportRaised => StatusOf(runId)' # "failed"]_vars

\* exportResults is being invoked after at least one batch.
C29_ExportReached == runPc = "export" /\ nBatches >= 1 /\ scraped # {}

\* ---------------------------------------------------------------------------
\* An exception inside processDistrict
\* ---------------------------------------------------------------------------

\* The items whose handler entered the catch block, once no batch is at work.
CaughtAndSettled == IF runPc = "batch" THEN {} ELSE caught

\* C26: an item whose pipeline raised inside processDistrict has, once its
\* batch has settled, the global status failed, an entry in the errors of
\* the run, and stats.failed counts it exactly once.
C26_ExceptionRecordedAsFailed ==
    CaughtAndSettled # {}
        => /\ \A i \in CaughtAndSettled :
                districts[i] = "failed" /\ i \in progressDoc.errors
           /\ progressDoc.failed = Cardinality(CaughtAndSettled)

\* The same while the progress store has accepted every call so far.
C26_RecordedWhenStoreAccepts ==
    (CaughtAndSettled # {} /\ faultsLeft = MaxFaults)
        => /\ \A i \in CaughtAndSettled :
                districts[i] = "failed" /\ i \in progressDoc.errors
           /\ progressDoc.failed = Cardinality(CaughtAndSettled)

\* The run goes on after a batch in which an item was caught.
C26_RunContinues ==
    [][runPc = "batch" /\ runPc' # "batch" => runPc' = "progress"]_vars

\* A pipeline stage raised for an item, the write of failDistrict was rejected,
\* and the batch has settled: the item is still processing, stats.failed is 0
\* and the errors of the run are empty, while the run goes on.
C26_FailureLost ==
    /\ runPc \in {"progress", "loop", "delay", "export"}
    /\ \E i \in CaughtAndSettled :
          /\ districts[i] = "processing"
          /\ i \notin progressDoc.errors
          /\ progressDoc.failed = 0

\* ---------------------------------------------------------------------------
\* The acquisition stage and the circuit breaker
\* ---------------------------------------------------------------------------

\* The acquisition stage of item i gives up in this step: withRetry rejects
\* with an error other than CAPTCHA_DETECTED and the handler enters its catch
\* block.
AcquisitionFails(i) == hpc[i] = "scrape" /\ hpc'[i] = "failLog"

\* withRetry goes into another attempt of the acquisition of item i.
AcquisitionRetried(i) == hpc[i] = "scrape" /\ attempt'[i] = attempt[i] + 1

\* The acquisition stage of item i is entered.
AcquisitionEntered(i) == hpc[i] = "rate" /\ hpc'[i] = "scrape"

\* C23: the acquisition stage runs under a circuit breaker that wraps the
\* retries: the breaker records a failure when the retries of an item are used
\* up, none for a single failed attempt, and the stage is not entered for an
\* item while the breaker is open.
C23_BreakerWrapsAcquisition ==
    [][\A i \in Ids :
          /\ AcquisitionFails(i) => failures' = failures + 1
          /\ AcquisitionRetried(i) => failures' = failures
          /\ AcquisitionEntered(i) => state # "open"]_vars

\* The acquisition of every item with a website was attempted and failed
\* after its retries, one item after the other, and no breaker state has
\* changed: no failure is recorded and the breaker is closed.
C23_NoBreakerInPipeline ==
    /\ Cardinality(scraped) >= 2
    /\ scraped \subseteq caught
    /\ \A i \in scraped : districts[i] = "failed"
    /\ faultsLeft = MaxFaults
    /\ failures = 0
    /\ state = "closed"

\* ---------------------------------------------------------------------------
\* The acquisition stage observed: what the scraper rejected with and what
\* the stage left in `contacts`
\* ---------------------------------------------------------------------------

\* One execution of the process with MAX_CONCURRENT_SCRAPERS=1 in which the
\* outcome of the acquisition stage is recorded; Firestore calls may reject.
InitAcquisition ==
    /\ InitStore
    /\ InitProcess
    /\ InitLib
    /\ population \in 0..NItems
    /\ concurrency = 1
    /\ observe = TRUE
    /\ faultsLeft = MaxFaults
    /\ runsLeft = 1

SpecAcquisition == InitAcquisition /\ [][Next]_vars

\* C24: an acquisition that raised CAPTCHA_DETECTED for an item is not
\* retried: once the scraper has rejected with it the handler is not in the
\* retry loop of the stage any more, no backoff is awaited and no further
\* attempt is counted.
C24_BlockedNotRetried ==
    \A i \in Ids :
        scrapeError[i] = "CAPTCHA_DETECTED" => hpc[i] # "scrape" /\ attempt[i] = 0

\* The scraper rejected with CAPTCHA_DETECTED and withRetry is about to make
\* the last of its six invocations for the item, five backoff delays later.
C24_BlockedRetriedToTheEnd ==
    \E i \in Ids :
        /\ hpc[i] = "scrape"
        /\ scrapeError[i] = "CAPTCHA_DETECTED"
        /\ attempt[i] = networkMaxRetries

\* The fallback contacts were substituted.
C24_FallbackReached ==
    \E i \in Ids :
        hpc[i] = "stages" /\ scrapeError[i] = "CAPTCHA_DETECTED" /\ contacts[i] = {60}

\* The acquisition stage of item i is over and its last scraper call was
\* rejected with `error`.
AcquisitionEndedWith(i, error) == hpc[i] # "scrape" /\ scrapeError[i] = error

\* Handler positions of the stages that follow the acquisition, up to the
\* return of processDistrict.
AfterAcquisition == {"stages", "save", "markCompleted", "completeLog", "completeUpd", "settled"}

\* The items whose handler has settled without entering its catch block.
SettledUncaught == {j \in Ids : hpc[j] = "settled" /\ j \notin caught}

\* What C25 says of a state: an item whose acquisition ended with
\* CAPTCHA_DETECTED holds the department contacts with confidence 60, or none
\* without a usable domain, goes through the remaining stages and, unless one
\* of them raises, settles with the global status completed, a saved result
\* and a count in stats.completed; an item whose acquisition ended with
\* another error is in the catch block and, the store having accepted every
\* call, settles with the status failed and a count in stats.failed.
BlockedCompletesOthersFail ==
    \A i \in Ids :
        /\ AcquisitionEndedWith(i, "CAPTCHA_DETECTED") =>
              /\ contacts[i] = IF HasDomain(i) THEN {60} ELSE {}
              /\ i \notin caught => hpc[i] \in AfterAcquisition
              /\ i \in SettledUncaught =>
                    /\ districts[i] = "completed"
                    /\ i \in districtContacts
                    /\ progressDoc.completed = Cardinality(SettledUncaught)
        /\ AcquisitionEndedWith(i, "timeout") =>
              /\ i \in caught
              /\ hpc[i] \in {"failLog", "failUpd", "markFailed", "settled"}
              /\ (hpc[i] = "settled" /\ faultsLeft = MaxFaults) =>
                    /\ districts[i] = "failed"
                    /\ i \in progressDoc.errors
                    /\ progressDoc.failed >= 1

\* The step that ends the acquisition of an item with CAPTCHA_DETECTED passes
\* it to the remaining stages, the step that ends it with another error
\* passes it to the catch block.
AcquisitionEnds ==
    \A i \in Ids :
        (hpc[i] = "scrape" /\ hpc'[i] # "scrape") =>
            hpc'[i] = IF scrapeError'[i] = "timeout" THEN "failLog" ELSE "stages"

C25_NoDomainCompleted ==
    \E j \in Ids :
        /\ AcquisitionEndedWith(j, "CAPTCHA_DETECTED")
        /\ contacts[j] = {}
        /\ j \in SettledUncaught
        /\ districts[j] = "completed"

\* ---------------------------------------------------------------------------
\* exportResults: CSVExporter.exportContacts and exportSummary
\* ---------------------------------------------------------------------------

\* How often the export is run over the persisted result set.
MaxExports == 2

\* getAllDistrictContacts(): the documents of 'districtContacts' in the order
\* of the snapshot.
getAllDistrictContacts == SeqOfSet(districtContacts)

\* The contacts of the saved result of district d: two for a district with a
\* website, one of them without an emailStatus, none otherwise.
savedContacts(d) ==
    IF HasWebsite(d)
    THEN <<[emailStatus |-> "verified", confidence |-> 90],
           [emailStatus |-> "", confidence |-> 70]>>
    ELSE <<>>

\* exportContacts, lines 34-51: one row per contact of every document, in
\* order; a missing emailStatus is written as 'unverified'.  The other
\* columns are copied from the document in the same way.
RECURSIVE exportContacts(_)
exportContacts(all) ==
    IF all = <<>> THEN <<>>
    ELSE LET d == Head(all)
             row(k) == [District |-> d,
                        EmailStatus |-> IF savedContacts(d)[k].emailStatus = ""
                                        THEN "unverified"
                                        ELSE savedContacts(d)[k].emailStatus,
                        Confidence |-> savedContacts(d)[k].confidence]
         IN  [k \in DOMAIN savedContacts(d) |-> row(k)] \o exportContacts(Tail(all))

\* allContacts.reduce((sum, dc) => sum + dc.contacts.length, 0)
RECURSIVE totalContacts(_)
totalContacts(all) ==
    IF all = <<>> THEN 0
    ELSE Len(savedContacts(Head(all))) + totalContacts(Tail(all))

\* allContacts.reduce(... filter(c => c.emailStatus === 'verified').length ...)
RECURSIVE verifiedEmails(_)
verifiedEmails(all) ==
    IF all = <<>> THEN 0
    ELSE Len(SelectSeq(savedContacts(Head(all)), LAMBDA c : c.emailStatus = "verified"))
         + verifiedEmails(Tail(all))

\* formatExecutionTime(ms): `${hours}h ${minutes}m` as <<hours, minutes>>.
formatExecutionTime(ms) == <<ms \div 3600000, (ms % 3600000) \div 60000>>

\* The argument exportResults passes to exportSummary at time t (in ms), the
\* run having started at time 0; districtsCovered is getProcessingStats().completed.
summaryStats(t) ==
    [totalDistricts |-> getProcessingStatsTotal(districts),
     totalContacts |-> totalContacts(getAllDistrictContacts),
     verifiedEmails |-> verifiedEmails(getAllDistrictContacts),
     districtsCovered |-> Cardinality({i \in Ids : districts[i] = "completed"}),
     executionTime |-> formatExecutionTime(t)]

\* exportSummary(stats) called at time t: the text written to summary.txt,
\* line by line; `Generated` is new Date().toISOString().
exportSummary(stats, t) ==
    [Generated |-> t,
     TotalDistricts |-> stats.totalDistricts,
     DistrictsCovered |-> stats.districtsCovered,
     TotalContacts |-> stats.totalContacts,
     VerifiedEmails |-> stats.verifiedEmails,
     ExecutionTime |-> stats.executionTime]

\* exportResults() is run over the persisted result set; the clock counts ms.
exportResultsToFiles ==
    /\ Len(exported) < MaxExports
    /\ exported' = Append(exported,
                          [contacts |-> exportContacts(getAllDistrictContacts),
                           stats |-> summaryStats(now),
                           summary |-> exportSummary(summaryStats(now), now)])
    /\ UNCHANGED <<now, orchestratorVars, verifierVars, limiterVars, retryVars, breakerVars>>

\* A finished run: every district is completed with a saved result or failed.
InitExport ==
    /\ districtContacts \in SUBSET Ids
    /\ districts = [i \in Ids |-> IF i \in districtContacts THEN "completed" ELSE "failed"]
    /\ district_logs = {}
    /\ scrape_progress = [r \in 1..MaxRuns |-> NoDoc]
    /\ InitProcess
    /\ InitLib
    /\ population = NItems
    /\ concurrency = 1
    /\ observe = FALSE
    /\ faultsLeft = 0
    /\ runsLeft = 0

NextExport == tick \/ exportResultsToFiles

SpecExport == InitExport /\ [][NextExport]_vars

\* C30: two runs of the export over the same persisted result set, with the
\* same statistics, write the same contacts file and the same summary.
C30_ExportIdempotent ==
    \A a, b \in DOMAIN exported :
        exported[a].stats = exported[b].stats
            => /\ exported[a].contacts = exported[b].contacts
               /\ exported[a].summary = exported[b].summary

\* The part of C30 the code keeps: the contacts file is the same every time.
C30_ContactsIdentical ==
    \A a, b \in DOMAIN exported : exported[a].contacts = exported[b].contacts

\* Two exports of the same non-empty result set with the same statistics,
\* one millisecond apart: the contacts files are equal, the summaries differ.
C30_SummariesDiffer ==
    /\ Len(exported) = 2
    /\ exported[1].contacts # <<>>
    /\ exported[1].contacts = exported[2].contacts
    /\ exported[1].stats = exported[2].stats
    /\ exported[2].summary.Generated = exported[1].summary.Generated + 1
    /\ exported[1].summary # exported[2].summary

\* ---------------------------------------------------------------------------
\* An interrupt signal while a batch is running
\* ---------------------------------------------------------------------------

\* The process exits in this step.
ProcessExits == runPc # "exited" /\ runPc' = "exited"

\* C31: once a batch has been dispatched the process exits only from
\* cleanup, with no handler of the batch still at work and with a persisted
\* run status that is no longer running; so an interrupt that arrives while a
\* batch is running lets the items in flight finish, the final state is
\* persisted and cleanup runs.
C31_GracefulInterrupt ==
    [][(ProcessExits /\ nBatches >= 1)
         => /\ runPc = "cleanup"
            /\ activeCount = 0
            /\ runId # 0 => StatusOf(runId) # "running"]_vars

\* The process was interrupted in the middle of a batch: it is gone, the run
\* document still says running and an item is left with status processing.
C31_KilledMidBatch ==
    /\ runPc = "exited"
    /\ runId # 0
    /\ StatusOf(runId) = "running"
    /\ \E i \in Ids : districts[i] = "processing"
    /\ ~threw

\* ---------------------------------------------------------------------------
\* RateLimiter: the domain token of a caller that waits on the global bucket
\* ---------------------------------------------------------------------------

\* Caller c has passed its domain bucket and is suspended at the global one.
BlockedOnGlobal(c) == wpc[c] = "globalWait" /\ ValidKey(wurl[c])

\* No bucket of a domain gains more in this step than the time passed since
\* its last refill accounts for, capped at capacity; the step of a caller
\* that is suspended at the global bucket changes no domain bucket.
NoRefund ==
    /\ \A d \in DOMAIN domainBuckets :
          /\ d \in DOMAIN domainBuckets'
          /\ domainBuckets'[d].tokens
                <= Min(capacity, domainBuckets[d].tokens
                                   + (now - domainBuckets[d].lastRefill) * refillRate)
    /\ \A c \in Callers :
          (wpc[c] = "globalWait" /\ wpc'[c] # "globalWait")
              => domainBuckets' = domainBuckets
    /\ \A c \in Callers : domainTaken'[c] >= domainTaken[c]

\* C32: a keyed call that is suspended at the global bucket has spent its
\* domain token and keeps it spent; a domain bucket regains tokens by the
\* refill over time only, never by a refund.
C32_DomainTokenStaysSpent ==
    /\ [](\A c \in Callers : BlockedOnGlobal(c) => domainTaken[c] = 1)
    /\ [][NoRefund]_vars

\* A caller is suspended at the global bucket after it took the last token of
\* its domain bucket: the next caller of that key would have to wait at the
\* domain bucket although the blocked caller has made no request yet.
C32_Witness ==
    \E c \in Callers :
        /\ BlockedOnGlobal(c)
        /\ domainTaken[c] = 1
        /\ globalTaken[c] = 0
        /\ LET b == domainBuckets[domainOf(wurl[c])]
           IN  ~hasToken(Min(capacity, b.tokens + (now - b.lastRefill) * refillRate))

\* ---------------------------------------------------------------------------
\* processDistrict: the order of save, status and counter update
\* ---------------------------------------------------------------------------

\* The handler of i leaves position p in this step.
Leaves(i, p) == hpc[i] = p /\ hpc'[i] # p

\* The handler of i arrives at position p in this step.
Arrives(i, p) == hpc[i] # p /\ hpc'[i] = p

\* The order of the awaited calls of one handler, step by step.
StageOrder ==
    \A i \in Ids :
        /\ Arrives(i, "markCompleted") =>
              /\ hpc[i] = "save"
              /\ i \in districtContacts'
        /\ (districts'[i] = "completed" /\ districts[i] # "completed") =>
              /\ hpc[i] = "markCompleted"
              /\ i \in districtContacts
        /\ Arrives(i, "completeUpd") => districts[i] = "completed"
        /\ (Leaves(i, "completeUpd") /\ hpc'[i] = "settled") =>
              /\ districts[i] = "completed"
              /\ scrape_progress'[runId] = completeDistrictDoc(scrape_progress[runId])
        /\ Arrives(i, "markProcessing") =>
              /\ hpc[i] = "start"
              /\ scrape_progress'[runId] = startDistrictDoc(scrape_progress[runId], i)
        /\ Arrives(i, "rate") => hpc[i] = "markProcessing"
        /\ Arrives(i, "scrape") => hpc[i] = "rate"
        /\ (i \in scraped' /\ i \notin scraped) => hpc[i] = "scrape"

\* C33: an item whose global status is completed has a saved result; within
\* processDistrict the save succeeds before the status completed is written,
\* which precedes the counter update of completeDistrict, and the scraper is
\* not invoked before startDistrict and waitForToken of the item have
\* returned.
C33_CompletedHasResult ==
    /\ [](\A i \in Ids :
            /\ districts[i] = "completed" => i \in districtContacts
            /\ hpc[i] \in {"markCompleted", "completeLog", "completeUpd"}
                  => i \in districtContacts
            /\ hpc[i] \in {"rate", "scrape"} => districts[i] = "processing")
    /\ [][StageOrder]_vars

\* An item has gone through the scraper, its result is saved, its status is
\* completed and completeDistrict has counted it.
C33_Witness ==
    \E i \in Ids :
        /\ i \in scraped
        /\ districts[i] = "completed"
        /\ i \in districtContacts
        /\ hpc[i] = "settled"
        /\ DistrictLog(i, runId, "success") \in district_logs
        /\ progressDoc.completed >= 1

\* ---------------------------------------------------------------------------
\* One run: every district is handled once
\* ---------------------------------------------------------------------------

\* The positions of a handler in the order processDistrict passes them.
PositionRank(p) ==
    CASE p = "idle" -> 0
      [] p = "queued" -> 1
      [] p = "check" -> 2
      [] p = "start" -> 3
      [] p = "markProcessing" -> 4
      [] p = "rate" -> 5
      [] p = "scrape" -> 6
      [] p = "stages" -> 7
      [] p = "save" -> 8
      [] p = "markCompleted" -> 9
      [] p = "completeLog" -> 10
      [] p = "completeUpd" -> 11
      [] p = "failLog" -> 12
      [] p = "failUpd" -> 13
      [] p = "markFailed" -> 14
      [] p = "settled" -> 15

\* A step of the handler of i within one execution of run().
HandlerStep(i) == hpc'[i] # hpc[i] /\ hpc'[i] # "idle"

\* The handler of i only moves forward: it is enqueued only when the run has
\* not handled i before, and the withRetry loop around the scraper is entered
\* once, with its attempt counter at 0.
HandledOnce ==
    \A i \in Ids :
        HandlerStep(i) =>
            /\ PositionRank(hpc'[i]) > PositionRank(hpc[i])
            /\ hpc'[i] = "queued" => (hpc[i] = "idle" /\ i \notin scraped)
            /\ hpc'[i] = "start" => ~isDistrictProcessed(district_logs, runId, i)
            /\ hpc'[i] = "markProcessing" =>
                  scrape_progress[runId].currentDistrict # i
            /\ hpc'[i] = "scrape" => (i \notin scraped /\ attempt[i] = 0)

\* The handler of a district with a success log of this run returns from the
\* guard: no document is written, the scraper is not called.
SkippedUntouched ==
    \A i \in Ids :
        (hpc[i] = "check" /\ hpc'[i] = "settled")
            => /\ isDistrictProcessed(district_logs, runId, i)
               /\ UNCHANGED <<storeVars, scraped, itemVars>>

\* C34: within one run each district is processed at most once: startDistrict
\* and the retry sequence of the scraper are started at most once per
\* district, and a district with a success log of the run is skipped without
\* a counter, status or stage call.
C34_ProcessedAtMostOnce == [][HandledOnce /\ SkippedUntouched]_vars

\* The second batch of a run is being processed while a district of the
\* first batch, which went through the scraper once, stays settled.
C34_Witness ==
    /\ nBatches = 2
    /\ runPc = "batch"
    /\ \E i, j \in Ids :
          /\ i \in scraped
          /\ hpc[i] = "settled"
          /\ DistrictLog(i, runId, "success") \in district_logs
          /\ hpc[j] \in Running

\* The guard of processDistrict finds no district processed: the run id is
\* new and each district is dispatched once.
C34_GuardNeverTaken ==
    \A i \in Ids : hpc[i] = "check" => ~isDistrictProcessed(district_logs, runId, i)

\* ---------------------------------------------------------------------------
\* EmailVerifier and the verification block of processDistrict
\* ---------------------------------------------------------------------------

\* How often address a occurs in a list of emails.
Occurrences(list, a) == Cardinality({k \in 1..Len(list) : list[k] = a})

\* verifyEmail: `cachedGreylist && Date.now() - cachedGreylist < 300000`.
cachedGreylist(cache, a) == cache[a] # -1 /\ now - cache[a] < greylistTTL

\* verifyBatch(emails): emails.map starts a verifyEmail call for every entry
\* (p-limit(10) holds none of them back); a call whose address has a fresh
\* cache entry returns 'greylist_retry', the others await authenticate.
verifyBatch(emails, cache) ==
    [k \in 1..Len(emails) |->
        IF cachedGreylist(cache, emails[k]) THEN "cached" ELSE "authenticate"]

\* processDistrict, lines 217-222: emailsToVerify holds the address of every
\* contact with an email and no emailStatus (two contacts may carry the same
\* address: the scraper's deduplicateContacts keys on email and name), and
\* verifyBatch is called when it is not empty.
verification ==
    /\ vpc \in {"idle", "done"}
    /\ nVerifications < MaxVerifications
    /\ nVerifications' = nVerifications + 1
    /\ \E n \in 0..MaxEmails : \E list \in [1..n -> Addresses] :
          /\ emailsToVerify' = list
          /\ vbatch' = list
          /\ vcalls' = verifyBatch(list, greylistCache)
          /\ submitted' = [a \in Addresses |-> Occurrences(list, a)]
          /\ vpc' = IF n = 0 THEN "done" ELSE "verifyBatch"
    /\ verificationResults' = [a \in Addresses |-> "none"]
    /\ retryResults' = [a \in Addresses |-> "none"]
    /\ UNCHANGED greylistCache
    /\ UNCHANGED <<now, orchestratorVars, exported, limiterVars, retryVars, breakerVars>>

\* The verifyEmail call of entry k returns and the limited function does
\* results.set(email, status); SMTP 421/450/451/452 enters the address in the
\* greylist cache.
verifyEmail(k) ==
    /\ vpc \in {"verifyBatch", "retryBatch"}
    /\ k \in DOMAIN vcalls
    /\ vcalls[k] # "returned"
    /\ \E status \in IF vcalls[k] = "cached"
                     THEN {"greylist_retry"}
                     ELSE {"verified", "greylist_retry", "invalid", "unverified"} :
          /\ greylistCache' =
                IF vcalls[k] = "authenticate" /\ status = "greylist_retry"
                THEN [greylistCache EXCEPT ![vbatch[k]] = now]
                ELSE greylistCache
          /\ IF vpc = "verifyBatch"
             THEN /\ verificationResults' = [verificationResults EXCEPT ![vbatch[k]] = status]
                  /\ UNCHANGED retryResults
             ELSE /\ retryResults' = [retryResults EXCEPT ![vbatch[k]] = status]
                  /\ UNCHANGED verificationResults
    /\ vcalls' = [vcalls EXCEPT ![k] = "returned"]
    /\ UNCHANGED <<emailsToVerify, vpc, vbatch, submitted, nVerifications>>
    /\ UNCHANGED <<now, orchestratorVars, exported, limiterVars, retryVars, breakerVars>>

\* await Promise.all(verificationPromises) resolves.  After the first batch,
\* lines 224-235: the addresses with result 'greylist_retry' go to
\* retryGreylisted, which keeps those in the cache and sleeps 60 s when any is
\* left; after the batch of retryGreylisted the block is finished.
verifyBatchReturns ==
    /\ vpc \in {"verifyBatch", "retryBatch"}
    /\ \A k \in DOMAIN vcalls : vcalls[k] = "returned"
    /\ LET greylistedEmails ==
               {a \in Addresses : verificationResults[a] = "greylist_retry"}
           inCache == {a \in greylistedEmails : greylistCache[a] # -1}
       IN  IF vpc = "verifyBatch" /\ inCache # {}
           THEN /\ vpc' = "retrySleep"
                /\ vbatch' = SeqOfSet(inCache)
           ELSE /\ vpc' = "done"
                /\ vbatch' = vbatch
    /\ UNCHANGED <<greylistCache, emailsToVerify, vcalls, verificationResults,
                   retryResults, submitted, nVerifications>>
    /\ UNCHANGED <<now, orchestratorVars, exported, limiterVars, retryVars, breakerVars>>

\* retryGreylisted after its sleep, lines 76-82: the cache entries are deleted
\* and verifyBatch(greylistedEmails) is called.
retryGreylisted ==
    /\ vpc = "retrySleep"
    /\ LET cache == [a \in Addresses |->
                        IF a \in Range(vbatch) THEN -1 ELSE greylistCache[a]]
       IN  /\ greylistCache' = cache
           /\ vcalls' = verifyBatch(vbatch, cache)
    /\ submitted' = [a \in Addresses |-> submitted[a] + Occurrences(vbatch, a)]
    /\ vpc' = "retryBatch"
    /\ UNCHANGED <<emailsToVerify, vbatch, verificationResults, retryResults,
                   nVerifications>>
    /\ UNCHANGED <<now, orchestratorVars, exported, limiterVars, retryVars, breakerVars>>

\* The verifier of one orchestrator, handling the contacts of one district
\* after the other.
InitVerify == InitIdle /\ InitLib

NextVerify ==
    \/ tick
    \/ verification
    \/ \E k \in 1..MaxEmails : verifyEmail(k)
    \/ verifyBatchReturns
    \/ retryGreylisted

SpecVerify == InitVerify /\ [][NextVerify]_vars

\* C35: while one district is processed every address is submitted to the
\* verifier at most twice, once by verifyBatch and at most once more by the
\* one retryGreylisted pass.
C35_AtMostTwicePerAddress == \A a \in Addresses : submitted[a] <= 2

\* The retry itself is bounded: one pass, over addresses whose result of
\* verifyBatch was 'greylist_retry', each submitted once more; the block ends
\* after it.
C35_OneRetryPass ==
    /\ [](\A a \in Addresses :
            /\ submitted[a] <= Occurrences(emailsToVerify, a) + 1
            /\ retryResults[a] # "none" => verificationResults[a] = "greylist_retry"
            /\ vpc \in {"retrySleep", "retryBatch"} /\ a \in Range(vbatch)
                  => verificationResults[a] = "greylist_retry")
    /\ [][vpc = "done" => (vpc' = "done" \/ nVerifications' = nVerifications + 1)]_vars

\* The retry returned 'greylist_retry' again and the block has ended.
C35_StillGreylisted ==
    \E a \in Addresses : vpc = "done" /\ retryResults[a] = "greylist_retry"

\* ---------------------------------------------------------------------------
\* RunState.currentDistrict under concurrent handlers
\* ---------------------------------------------------------------------------

\* The districts whose handler is between startDistrict and its last tracker
\* call.
InFlight ==
    {i \in Ids : hpc[i] \in {"markProcessing", "rate", "scrape", "stages", "save",
                             "markCompleted", "completeLog", "completeUpd"}}

\* C36: with a concurrency limit above 1 and a store that rejects nothing,
\* whenever stats.processing > 0 currentDistrict is set and names a district
\* in flight, and it is absent whenever stats.processing is 0.
C36_CurrentDistrictInFlight ==
    (concurrency > 1 /\ faultsLeft = MaxFaults /\ DocExists(progressDoc) /\ caught = {})
        => IF progressDoc.processing > 0
           THEN progressDoc.currentDistrict \in InFlight
           ELSE progressDoc.currentDistrict = 0

\* The same with one handler at a time.
C36_SequentialCurrentDistrict ==
    (concurrency = 1 /\ faultsLeft = MaxFaults /\ DocExists(progressDoc) /\ caught = {})
        => IF progressDoc.processing > 0
           THEN progressDoc.currentDistrict \in InFlight
           ELSE progressDoc.currentDistrict = 0

\* ---------------------------------------------------------------------------
\* RunState.stats: the range of the counters
\* ---------------------------------------------------------------------------

\* C37: in every state of a run each of stats.pending, stats.processing,
\* stats.completed and stats.failed is at least 0 and at most stats.total,
\* also when isDistrictProcessed or startDistrict raises for a district.
C37_CountersInRange ==
    DocExists(progressDoc) =>
        \A n \in {progressDoc.pending, progressDoc.processing,
                  progressDoc.completed, progressDoc.failed} :
            0 <= n /\ n <= progressDoc.total

\* The same for runs in which the store rejects no call.
C37_InRangeWhenStoreAccepts ==
    (DocExists(progressDoc) /\ faultsLeft = MaxFaults) =>
        \A n \in {progressDoc.pending, progressDoc.processing,
                  progressDoc.completed, progressDoc.failed} :
            0 <= n /\ n <= progressDoc.total

\* ---------------------------------------------------------------------------
\* The outcome records of a run against its counters
\* ---------------------------------------------------------------------------

\* The district logs the current run has written, by status.
RunLogs(st) == {l \in district_logs : l.runId = runId /\ l.status = st}

\* The statement of C38 for the run that has just ended.
RecordsAgree ==
    /\ \A i \in Ids :
          hpc[i] = "settled" =>
              /\ Cardinality({l \in district_logs :
                                 l.runId = runId /\ l.districtId = i}) = 1
              /\ DistrictLog(i, runId, "success") \in district_logs
                    <=> districts[i] = "completed"
    /\ Cardinality(RunLogs("success")) = progressDoc.completed
    /\ Cardinality(RunLogs("failed")) = progressDoc.failed

\* The run has ended: run() has returned or thrown, after its tracker wrote
\* the run document.
RunEnded == runPc = "exited" /\ runId # 0 /\ DocExists(progressDoc)

\* C38: when a run ends every district processed in it has exactly one
\* outcome record of the run, the success records are as many as
\* stats.completed, the failed records as many as stats.failed, and a
\* district has a success record exactly when its status is completed, also
\* when a store call of completeDistrict or failDistrict raises after the
\* log was added.
C38_RecordsAgreeAtEnd == RunEnded => RecordsAgree

\* The same for runs in which the store rejects no call.
C38_AgreeWhenStoreAccepts == (RunEnded /\ faultsLeft = MaxFaults) => RecordsAgree

\* completeDistrict's update was rejected after its log was added, and the
\* catch block added a failed log: the district has both records of the run
\* and stats.completed does not count the success record.
C38_BothRecords ==
    /\ RunEnded
    /\ \E i \in Ids :
          /\ DistrictLog(i, runId, "success") \in district_logs
          /\ DistrictLog(i, runId, "failed") \in district_logs
          /\ progressDoc.completed = 0

\* failDistrict's update was rejected after its log was added: a failed
\* record that stats.failed does not count.
C38_RecordWithoutCount ==
    /\ RunEnded
    /\ RunLogs("success") = {}
    /\ Cardinality(RunLogs("failed")) = 1
    /\ progressDoc.failed = 0

\* ---------------------------------------------------------------------------
\* RateLimiter: waiters, reset() and the passing of time
\* ---------------------------------------------------------------------------

\* reset(), lines 375-379: the global bucket is full again and the map of the
\* domain buckets is cleared.  A caller suspended in the domain loop keeps the
\* bucket object it read before the loop.
reset ==
    /\ tokens' = capacity
    /\ lastRefill' = now
    /\ domainBuckets' = NoBuckets
    /\ detached' = [c \in Callers |->
                       IF wpc[c] = "domainWait" /\ detached[c] = -1
                       THEN domainBuckets[domainOf(wurl[c])].tokens
                       ELSE detached[c]]
    /\ UNCHANGED <<wpc, wurl, wakeAt, nCalls, callNo, domainTaken, globalTaken, doneAt>>
    /\ UNCHANGED <<now, orchestratorVars, exported, verifierVars, retryVars, breakerVars>>

\* The calls are made at time 0, so that the time the model covers is enough
\* for every one of them to be served.
NextWaiters ==
    \/ tick
    \/ \E c \in Callers : now = 0 /\ RateLimiter_waitForToken(c)
    \/ \E c \in Callers : domainDelayElapsed(c)
    \/ \E c \in Callers : globalDelayElapsed(c)

\* Time advances and a timer that is due fires (the event loop runs every
\* setTimeout callback).
timersFire ==
    /\ WF_vars(tick)
    /\ \A c \in Callers : WF_vars(domainDelayElapsed(c)) /\ WF_vars(globalDelayElapsed(c))

SpecWaiters == InitRateLimiter /\ [][NextWaiters]_vars /\ timersFire

NextReset == NextWaiters \/ reset

SpecReset == InitRateLimiter /\ [][NextReset]_vars /\ timersFire

\* C40: a call that waits at a domain bucket returns in the end, also when
\* reset() is called while it waits.
C40_WaiterReturnsDespiteReset ==
    \A c \in Callers : (wpc[c] = "domainWait") ~> (wpc[c] = "returned")

\* After reset() a waiter tests a bucket that is in no map: refillDomain
\* does not reach it.
C40_WaiterDetached ==
    \E c \in Callers : wpc[c] = "domainWait" /\ detached[c] # -1

\* The bucket a detached waiter tests never changes, and the waiter never
\* leaves the domain loop.
C40_DetachedForever ==
    [][\A c \in Callers :
          (wpc[c] = "domainWait" /\ detached[c] # -1)
              => (wpc'[c] = "domainWait" /\ detached'[c] = detached[c])]_vars

\* ---------------------------------------------------------------------------
\* Termination of run()
\* ---------------------------------------------------------------------------

\* Every call that is awaited returns or raises in the end and the event loop
\* runs every continuation that is ready.
SpecLive == Spec /\ WF_vars(Next)

\* The parts of C39 about the run itself: every dispatched handler settles,
\* run() ends, and the process exits from cleanup only.
RunEnds ==
    /\ \A i \in Ids : (hpc[i] \in Running \cup {"queued"}) ~> (hpc[i] = "settled")
    /\ (runPc = "initialize") ~> (runPc = "exited")
    /\ [][ProcessExits => runPc = "cleanup"]_vars

\* C39: when every stage and store call returns or raises in the end, run()
\* terminates: every dispatched handler settles, the run status reaches
\* completed or failed, and cleanup is executed on every exit path.
C39_RunTerminatesRecorded ==
    /\ RunEnds
    /\ (runPc = "initialize")
          ~> (runPc = "exited" /\ runId # 0 /\ StatusOf(runId) \in {"completed", "failed"})

\* What the code keeps of C39: termination, settlement and cleanup.
C39_RunTerminates == RunEnds

\* The part of C39 about the rate limiter: a call that waits at a bucket
\* returns in the end.
C39_NoCallerStarves ==
    \A c \in Callers : (wpc[c] \in {"domainWait", "globalWait"}) ~> (wpc[c] = "returned")

====
